---- MODULE Spec2Model ----
(***************************************************************************)
(* Model of the repository statistics engine of nodegit                   *)
(* (generate/templates/manual/repository/statistics.cc) and of the worker *)
(* pool it runs on (generate/templates/manual/include/work_pool.h).       *)
(***************************************************************************)
EXTENDS Integers, Sequences, FiniteSets, TLC

\* ------------------------------------------------------------------------
\* Bounds of the model
\* ------------------------------------------------------------------------
NumWorkers == 2
MaxDup == 1
MaxCommits == 4
MaxTrees == 3
MaxTags == 3
MaxWraps == 3
MaxOutput == 3
MaxHardware == 5

\* ------------------------------------------------------------------------
\* libgit2 values used by the code
\* ------------------------------------------------------------------------
GIT_OK == 0
GIT_ERROR == 0 - 1
GIT_EUSER == 0 - 7

NoOid == "none"
EmptyMap == [x \in {} |-> NoOid]

Max(a, b) == IF a >= b THEN a ELSE b

\* ------------------------------------------------------------------------
\* Objects of the object database, as the libgit2 accessors expose them
\* ------------------------------------------------------------------------
GitCommit(size, parents, tree) ==
  [type |-> "COMMIT", size |-> size, parents |-> parents, tree |-> tree,
   entries |-> <<>>, target |-> NoOid, ttype |-> "INVALID"]

GitTree(size, entries) ==
  [type |-> "TREE", size |-> size, parents |-> <<>>, tree |-> NoOid,
   entries |-> entries, target |-> NoOid, ttype |-> "INVALID"]

GitBlob(size) ==
  [type |-> "BLOB", size |-> size, parents |-> <<>>, tree |-> NoOid,
   entries |-> <<>>, target |-> NoOid, ttype |-> "INVALID"]

GitTag(target, ttype) ==
  [type |-> "TAG", size |-> 1, parents |-> <<>>, tree |-> NoOid,
   entries |-> <<>>, target |-> target, ttype |-> ttype]

TreeEntry(nameLen, filemode, etype, oid) ==
  [nameLen |-> nameLen, filemode |-> filemode, etype |-> etype, oid |-> oid]

\* ------------------------------------------------------------------------
\* CommitsGraph
\* ------------------------------------------------------------------------
CommitsGraphNode(aParentsLeft) == [children |-> <<>>, parentsLeft |-> aParentsLeft]

EmptyGraph == [m_mapOidNode |-> EmptyMap, m_roots |-> <<>>]

\* emplace of a default node for the parent (no effect when present), then
\* the child is appended to the parent's children
addParentNode(nodes, oid_parent, child) ==
  LET emplaced == IF oid_parent \in DOMAIN nodes
                    THEN nodes
                    ELSE nodes @@ (oid_parent :> CommitsGraphNode(0))
  IN [emplaced EXCEPT ![oid_parent].children = Append(@, child)]

RECURSIVE AddParentsFrom(_, _, _, _)
AddParentsFrom(nodes, parents, child, i) ==
  IF i > Len(parents) THEN nodes
  ELSE AddParentsFrom(addParentNode(nodes, parents[i], child), parents, child, i + 1)

\* AddNode that leaves parentsLeft of a node a child created as it is
AddNodeKeepsPlaceholder(graph, oid, parents, numParents) ==
  LET emplaced == IF oid \in DOMAIN graph.m_mapOidNode
                    THEN graph.m_mapOidNode
                    ELSE graph.m_mapOidNode @@ (oid :> CommitsGraphNode(numParents))
      roots == IF numParents = 0 THEN Append(graph.m_roots, oid) ELSE graph.m_roots
  IN [m_mapOidNode |-> AddParentsFrom(emplaced, parents, oid, 1), m_roots |-> roots]

\* AddNode that sets a root only when it created the node itself
AddNodeRootOnlyWhenNew(graph, oid, parents, numParents) ==
  LET emplaced == IF oid \in DOMAIN graph.m_mapOidNode
                    THEN [graph.m_mapOidNode EXCEPT ![oid].parentsLeft = numParents]
                    ELSE graph.m_mapOidNode @@ (oid :> CommitsGraphNode(numParents))
      roots == IF numParents = 0 /\ oid \notin DOMAIN graph.m_mapOidNode
                 THEN Append(graph.m_roots, oid) ELSE graph.m_roots
  IN [m_mapOidNode |-> AddParentsFrom(emplaced, parents, oid, 1), m_roots |-> roots]

\* AddNode that puts the parents it has no node for among the roots
AddNodeRootsPlaceholders(graph, oid, parents, numParents) ==
  LET emplaced == IF oid \in DOMAIN graph.m_mapOidNode
                    THEN [graph.m_mapOidNode EXCEPT ![oid].parentsLeft = numParents]
                    ELSE graph.m_mapOidNode @@ (oid :> CommitsGraphNode(numParents))
      created == SelectSeq(parents, LAMBDA p : p \notin DOMAIN emplaced)
      roots == IF numParents = 0 THEN Append(graph.m_roots, oid) ELSE graph.m_roots \o created
  IN [m_mapOidNode |-> AddParentsFrom(emplaced, parents, oid, 1), m_roots |-> roots]

AddNode(graph, oid, parents, numParents) ==
  LET emplaced == IF oid \in DOMAIN graph.m_mapOidNode
                    THEN [graph.m_mapOidNode EXCEPT ![oid].parentsLeft = numParents]
                    ELSE graph.m_mapOidNode @@ (oid :> CommitsGraphNode(numParents))
      roots == IF numParents = 0 THEN Append(graph.m_roots, oid) ELSE graph.m_roots
  IN [m_mapOidNode |-> AddParentsFrom(emplaced, parents, oid, 1), m_roots |-> roots]

\* --child->parentsLeft == 0 for the children of one parent, in vector order.
\* parentsLeft is a uint32_t: its value is kept as the congruent integer, so
\* that 0 - 1 stands for 2^32 - 1 (never equal to 0 again within the bounds).
\* the loop over the children that inserts a child for every parent while
\* parentsLeft has not passed 0
RECURSIVE VisitChildrenWhileLeft(_, _, _, _)
VisitChildrenWhileLeft(nodes, next, kids, i) ==
  IF i > Len(kids) THEN [nodes |-> nodes, children |-> next]
  ELSE LET child == kids[i]
           left == nodes[child].parentsLeft - 1
       IN VisitChildrenWhileLeft([nodes EXCEPT ![child].parentsLeft = left],
                                 IF left >= 0 THEN next \cup {child} ELSE next,
                                 kids, i + 1)

\* the loop over the children that inserts a child for every parent
RECURSIVE VisitChildrenEveryParent(_, _, _, _)
VisitChildrenEveryParent(nodes, next, kids, i) ==
  IF i > Len(kids) THEN [nodes |-> nodes, children |-> next]
  ELSE LET child == kids[i]
           left == nodes[child].parentsLeft - 1
       IN VisitChildrenEveryParent([nodes EXCEPT ![child].parentsLeft = left],
                                   next \cup {child}, kids, i + 1)

RECURSIVE VisitChildren(_, _, _, _)
VisitChildren(nodes, next, kids, i) ==
  IF i > Len(kids) THEN [nodes |-> nodes, children |-> next]
  ELSE LET child == kids[i]
           left == nodes[child].parentsLeft - 1
       IN VisitChildren([nodes EXCEPT ![child].parentsLeft = left],
                        IF left = 0 THEN next \cup {child} ELSE next,
                        kids, i + 1)

\* one level: for (parent : parents) for (child : parent->children)
RECURSIVE VisitParents(_, _, _)
VisitParents(nodes, next, parents) ==
  IF parents = {} THEN [nodes |-> nodes, children |-> next]
  ELSE LET parent == CHOOSE p \in parents : TRUE
           r == VisitChildren(nodes, next, nodes[parent].children, 1)
       IN VisitParents(r.nodes, r.children, parents \ {parent})

RECURSIVE DepthLevels(_, _, _)
DepthLevels(nodes, children, maxDepth) ==
  IF children = {} THEN [nodes |-> nodes, maxDepth |-> maxDepth]
  ELSE LET r == VisitParents(nodes, {}, children)
       IN DepthLevels(r.nodes, r.children, maxDepth + 1)

SeqRange(s) == {s[i] : i \in 1..Len(s)}

\* the while loop of CalculateMaxDepth with the sets that parents held, one
\* per iteration
RECURSIVE FrontiersFrom(_, _, _)
FrontiersFrom(nodes, children, levels) ==
  IF children = {} THEN [nodes |-> nodes, levels |-> levels]
  ELSE LET r == VisitParents(nodes, {}, children)
       IN FrontiersFrom(r.nodes, r.children, Append(levels, children))

Frontiers(graph) == FrontiersFrom(graph.m_mapOidNode, SeqRange(graph.m_roots), <<>>)

\* the while loop of CalculateMaxDepth stopped after at most left iterations
RECURSIVE LoopWithin(_, _, _, _)
LoopWithin(nodes, children, maxDepth, left) ==
  IF children = {} \/ left = 0
    THEN [nodes |-> nodes, children |-> children, maxDepth |-> maxDepth]
    ELSE LET r == VisitParents(nodes, {}, children)
         IN LoopWithin(r.nodes, r.children, maxDepth + 1, left - 1)

CalculateMaxDepth(graph) ==
  DepthLevels(graph.m_mapOidNode, SeqRange(graph.m_roots), 0)

\* ------------------------------------------------------------------------
\* TreeStatistics, OdbObjectsInfo and the handlers of WorkerStoreOdbData
\* ------------------------------------------------------------------------
kUnsetDepth == 0

TreeStatistics ==
  [numDirectories |-> 0, maxPathDepth |-> 0, maxPathLength |-> 0, numFiles |-> 0,
   totalFileSize |-> 0, numSymlinks |-> 0, numSubmodules |-> 0]

TreeDataAndStats ==
  [entryBlobs |-> <<>>, entryTreesNameLen |-> <<>>, stats |-> TreeStatistics,
   statsDone |-> FALSE]

TagData(oidTarget, typeTarget, depth) ==
  [oidTarget |-> oidTarget, typeTarget |-> typeTarget, depth |-> depth]

InitCommitsInfo ==
  [info |-> EmptyMap, graph |-> EmptyGraph, totalSize |-> 0, maxSize |-> 0, maxParents |-> 0]
InitTreesInfo == [info |-> EmptyMap, totalSize |-> 0, totalEntries |-> 0, maxEntries |-> 0]
InitBlobsInfo == [info |-> EmptyMap, totalSize |-> 0, maxSize |-> 0]
InitTagsInfo == [info |-> EmptyMap]

\* the for loop that stores a submodule as a sub-tree of the tree
TreeEntryStepSubmoduleAsTree(tds, te) ==
  CASE te.etype = "COMMIT" ->
         IF te.filemode = "FILEMODE_COMMIT"
           THEN [tds EXCEPT !.entryTreesNameLen = Append(@, <<te.oid, te.nameLen>>),
                            !.stats.numSubmodules = @ + 1]
           ELSE tds
    [] te.etype = "BLOB" ->
         IF te.filemode = "FILEMODE_LINK"
           THEN [tds EXCEPT !.stats.numSymlinks = @ + 1]
           ELSE [tds EXCEPT !.entryBlobs = Append(@, te.oid),
                            !.stats.numFiles = @ + 1,
                            !.stats.maxPathLength = Max(@, te.nameLen)]
    [] te.etype = "TREE" ->
         [tds EXCEPT !.entryTreesNameLen = Append(@, <<te.oid, te.nameLen>>)]
    [] OTHER -> tds

\* the for loop that stores a symbolic link as a blob entry, as it does a file
TreeEntryStepLinkAsFile(tds, te) ==
  CASE te.etype = "COMMIT" ->
         IF te.filemode = "FILEMODE_COMMIT"
           THEN [tds EXCEPT !.stats.numSubmodules = @ + 1]
           ELSE tds
    [] te.etype = "BLOB" ->
         IF te.filemode = "FILEMODE_LINK"
           THEN [tds EXCEPT !.entryBlobs = Append(@, te.oid),
                            !.stats.numSymlinks = @ + 1]
           ELSE [tds EXCEPT !.entryBlobs = Append(@, te.oid),
                            !.stats.numFiles = @ + 1,
                            !.stats.maxPathLength = Max(@, te.nameLen)]
    [] te.etype = "TREE" ->
         [tds EXCEPT !.entryTreesNameLen = Append(@, <<te.oid, te.nameLen>>)]
    [] OTHER -> tds

\* one iteration of the for loop over the entries of a tree
TreeEntryStep(tds, te) ==
  CASE te.etype = "COMMIT" ->
         IF te.filemode = "FILEMODE_COMMIT"
           THEN [tds EXCEPT !.stats.numSubmodules = @ + 1]
           ELSE tds
    [] te.etype = "BLOB" ->
         IF te.filemode = "FILEMODE_LINK"
           THEN [tds EXCEPT !.stats.numSymlinks = @ + 1]
           ELSE [tds EXCEPT !.entryBlobs = Append(@, te.oid),
                            !.stats.numFiles = @ + 1,
                            !.stats.maxPathLength = Max(@, te.nameLen)]
    [] te.etype = "TREE" ->
         [tds EXCEPT !.entryTreesNameLen = Append(@, <<te.oid, te.nameLen>>)]
    [] OTHER -> tds

RECURSIVE TreeEntriesFrom(_, _, _)
TreeEntriesFrom(tds, entries, i) ==
  IF i > Len(entries) THEN tds
  ELSE TreeEntriesFrom(TreeEntryStep(tds, entries[i]), entries, i + 1)

thisTreeDataAndStats(tree, numEntries) ==
  TreeEntriesFrom(TreeDataAndStats, SubSeq(tree.entries, 1, numEntries), 1)

\* the commit branch without the test of the result of emplace
StoreCommitEveryTime(ci, oid, commit) ==
  LET size == commit.size
      numParents == Len(commit.parents)
  IN [info |-> (oid :> commit.tree) @@ ci.info,
      graph |-> AddNode(ci.graph, oid, commit.parents, numParents),
      totalSize |-> ci.totalSize + size,
      maxSize |-> Max(ci.maxSize, size),
      maxParents |-> Max(ci.maxParents, numParents)]

\* the commit branch of Execute that keeps the values of the last commit as
\* the maxima
StoreCommitLastAsMax(ci, oid, commit) ==
  LET size == commit.size
      numParents == Len(commit.parents)
  IN IF oid \in DOMAIN ci.info THEN ci
     ELSE [info |-> ci.info @@ (oid :> commit.tree),
           graph |-> AddNode(ci.graph, oid, commit.parents, numParents),
           totalSize |-> ci.totalSize + size,
           maxSize |-> size,
           maxParents |-> numParents]

\* the commit branch of Execute, inside the lock on mutexCommits
StoreCommit(ci, oid, commit) ==
  LET size == commit.size
      numParents == Len(commit.parents)
  IN IF oid \in DOMAIN ci.info THEN ci
     ELSE [info |-> ci.info @@ (oid :> commit.tree),
           graph |-> AddNode(ci.graph, oid, commit.parents, numParents),
           totalSize |-> ci.totalSize + size,
           maxSize |-> Max(ci.maxSize, size),
           maxParents |-> Max(ci.maxParents, numParents)]

\* the tree branch of Execute, inside the lock on mutexTrees
StoreTree(ti, oid, tree) ==
  LET numEntries == Len(tree.entries)
      size == tree.size
      treeDataAndStats == thisTreeDataAndStats(tree, numEntries)
  IN IF oid \in DOMAIN ti.info THEN ti
     ELSE [info |-> ti.info @@ (oid :> treeDataAndStats),
           totalSize |-> ti.totalSize + size,
           totalEntries |-> ti.totalEntries + numEntries,
           maxEntries |-> Max(ti.maxEntries, numEntries)]

\* the blob branch of Execute, inside the lock on mutexBlobs
StoreBlob(bi, oid, blob) ==
  LET size == blob.size
  IN IF oid \in DOMAIN bi.info THEN bi
     ELSE [info |-> bi.info @@ (oid :> size),
           totalSize |-> bi.totalSize + size,
           maxSize |-> Max(bi.maxSize, size)]

\* the tag branch of Execute, inside the lock on mutexTags (emplace keeps
\* the element that is already there)
StoreTag(gi, oid, tag) ==
  IF oid \in DOMAIN gi.info THEN gi
  ELSE [info |-> gi.info @@ (oid :> TagData(tag.target, tag.ttype, kUnsetDepth))]

\* ------------------------------------------------------------------------
\* RepoAnalysis: roll-up of the tree statistics and tag depths
\* ------------------------------------------------------------------------
\* totalFileSize loop over entryBlobs, from index i; found = FALSE stands
\* for the end() iterator
RECURSIVE BlobSizesFromSkipsMissing(_, _, _, _)
BlobSizesFromSkipsMissing(info, blobs, oidTree, i) ==
  IF i > Len(info[oidTree].entryBlobs) THEN [info |-> info, found |-> TRUE]
  ELSE LET oidBlob == info[oidTree].entryBlobs[i]
       IN IF oidBlob \notin DOMAIN blobs
            THEN BlobSizesFromSkipsMissing(info, blobs, oidTree, i + 1)
            ELSE BlobSizesFromSkipsMissing(
                   [info EXCEPT ![oidTree].stats.totalFileSize = @ + blobs[oidBlob]],
                   blobs, oidTree, i + 1)

RECURSIVE BlobSizesFrom(_, _, _, _)
BlobSizesFrom(info, blobs, oidTree, i) ==
  IF i > Len(info[oidTree].entryBlobs) THEN [info |-> info, found |-> TRUE]
  ELSE LET oidBlob == info[oidTree].entryBlobs[i]
       IN IF oidBlob \notin DOMAIN blobs THEN [info |-> info, found |-> FALSE]
          ELSE BlobSizesFrom([info EXCEPT ![oidTree].stats.totalFileSize = @ + blobs[oidBlob]],
                             blobs, oidTree, i + 1)

AddSubTree(stats, sub, nameLen) ==
  [numDirectories |-> stats.numDirectories + sub.numDirectories,
   maxPathDepth |-> Max(stats.maxPathDepth, sub.maxPathDepth + 1),
   maxPathLength |-> Max(stats.maxPathLength, nameLen + 1 + sub.maxPathLength),
   numFiles |-> stats.numFiles + sub.numFiles,
   totalFileSize |-> stats.totalFileSize + sub.totalFileSize,
   numSymlinks |-> stats.numSymlinks + sub.numSymlinks,
   numSubmodules |-> stats.numSubmodules + sub.numSubmodules]

RECURSIVE calculateTreeStatistics(_, _, _)
RECURSIVE SubTreesFrom(_, _, _, _)

\* calculateTreeStatistics without the test of statsDone
calculateTreeStatisticsNoPrune(info, blobs, oidTree) ==
  IF oidTree \notin DOMAIN info THEN [info |-> info, found |-> FALSE]
  ELSE LET started == [info EXCEPT ![oidTree].stats.numDirectories = @ + 1,
                                   ![oidTree].stats.maxPathDepth = @ + 1]
           b == BlobSizesFrom(started, blobs, oidTree, 1)
       IN IF ~b.found THEN b
          ELSE LET s == SubTreesFrom(b.info, blobs, oidTree, 1)
               IN IF ~s.found THEN s
                  ELSE [info |-> [s.info EXCEPT ![oidTree].statsDone = TRUE],
                        found |-> TRUE]

\* calculateTreeStatistics that sets statsDone before the two loops
calculateTreeStatisticsFlagFirst(info, blobs, oidTree) ==
  IF oidTree \notin DOMAIN info THEN [info |-> info, found |-> FALSE]
  ELSE IF info[oidTree].statsDone THEN [info |-> info, found |-> TRUE]
  ELSE LET started == [info EXCEPT ![oidTree].stats.numDirectories = @ + 1,
                                   ![oidTree].stats.maxPathDepth = @ + 1,
                                   ![oidTree].statsDone = TRUE]
           b == BlobSizesFrom(started, blobs, oidTree, 1)
       IN IF ~b.found THEN b ELSE SubTreesFrom(b.info, blobs, oidTree, 1)

calculateTreeStatistics(info, blobs, oidTree) ==
  IF oidTree \notin DOMAIN info THEN [info |-> info, found |-> FALSE]
  ELSE IF info[oidTree].statsDone THEN [info |-> info, found |-> TRUE]
  ELSE LET started == [info EXCEPT ![oidTree].stats.numDirectories = @ + 1,
                                   ![oidTree].stats.maxPathDepth = @ + 1]
           b == BlobSizesFrom(started, blobs, oidTree, 1)
       IN IF ~b.found THEN b
          ELSE LET s == SubTreesFrom(b.info, blobs, oidTree, 1)
               IN IF ~s.found THEN s
                  ELSE [info |-> [s.info EXCEPT ![oidTree].statsDone = TRUE],
                        found |-> TRUE]

SubTreesFrom(info, blobs, oidTree, i) ==
  IF i > Len(info[oidTree].entryTreesNameLen) THEN [info |-> info, found |-> TRUE]
  ELSE LET subTreeNameLen == info[oidTree].entryTreesNameLen[i]
           r == calculateTreeStatistics(info, blobs, subTreeNameLen[1])
       IN IF ~r.found THEN r
          ELSE SubTreesFrom(
                 [r.info EXCEPT ![oidTree].stats =
                    AddSubTree(@, r.info[subTreeNameLen[1]].stats, subTreeNameLen[2])],
                 blobs, oidTree, i + 1)

\* biggestCheckouts taken as a whole from the root tree with the most files
UpdateBiggestCheckoutsWhole(big, stats) ==
  IF stats.numFiles >= big.numFiles THEN stats ELSE big

\* the body of the loop of calculateBiggestCheckouts after a roll-up
UpdateBiggestCheckouts(big, stats) ==
  [numDirectories |-> Max(big.numDirectories, stats.numDirectories),
   maxPathDepth |-> Max(big.maxPathDepth, stats.maxPathDepth),
   maxPathLength |-> Max(big.maxPathLength, stats.maxPathLength),
   numFiles |-> Max(big.numFiles, stats.numFiles),
   totalFileSize |-> Max(big.totalFileSize, stats.totalFileSize),
   numSymlinks |-> Max(big.numSymlinks, stats.numSymlinks),
   numSubmodules |-> Max(big.numSubmodules, stats.numSubmodules)]

RECURSIVE calculateTagDepth(_, _)

\* calculateTagDepth that does not add the depth of the chained tag
calculateTagDepthNoChain(info, oidTag) ==
  IF oidTag \notin DOMAIN info THEN [info |-> info, found |-> FALSE]
  ELSE IF info[oidTag].depth # kUnsetDepth THEN [info |-> info, found |-> TRUE]
  ELSE LET started == [info EXCEPT ![oidTag].depth = @ + 1]
           tagData == started[oidTag]
       IN IF tagData.typeTarget = "TAG"
            THEN calculateTagDepth(started, tagData.oidTarget)
            ELSE [info |-> started, found |-> TRUE]

\* calculateTagDepth without the test of the depth that is set
calculateTagDepthNoPrune(info, oidTag) ==
  IF oidTag \notin DOMAIN info THEN [info |-> info, found |-> FALSE]
  ELSE LET started == [info EXCEPT ![oidTag].depth = @ + 1]
           tagData == started[oidTag]
       IN IF tagData.typeTarget = "TAG"
            THEN LET r == calculateTagDepth(started, tagData.oidTarget)
                 IN IF ~r.found THEN r
                    ELSE [info |-> [r.info EXCEPT ![oidTag].depth =
                                      @ + r.info[tagData.oidTarget].depth],
                          found |-> TRUE]
            ELSE [info |-> started, found |-> TRUE]

calculateTagDepth(info, oidTag) ==
  IF oidTag \notin DOMAIN info THEN [info |-> info, found |-> FALSE]
  ELSE IF info[oidTag].depth # kUnsetDepth THEN [info |-> info, found |-> TRUE]
  ELSE LET started == [info EXCEPT ![oidTag].depth = @ + 1]
           tagData == started[oidTag]
       IN IF tagData.typeTarget = "TAG"
            THEN LET r == calculateTagDepth(started, tagData.oidTarget)
                 IN IF ~r.found THEN r
                    ELSE [info |-> [r.info EXCEPT ![oidTag].depth =
                                      @ + r.info[tagData.oidTarget].depth],
                          found |-> TRUE]
            ELSE [info |-> started, found |-> TRUE]

\* Statistics (m_statistics)
InitStatistics ==
  [repositorySize |->
     [commits |-> [count |-> 0, size |-> 0],
      trees |-> [count |-> 0, size |-> 0, entries |-> 0],
      blobs |-> [count |-> 0, size |-> 0],
      annotatedTags |-> [count |-> 0],
      references |-> [count |-> 0]],
   biggestObjects |->
     [commits |-> [maxSize |-> 0, maxParents |-> 0],
      trees |-> [maxEntries |-> 0],
      blobs |-> [maxSize |-> 0]],
   historyStructure |-> [maxDepth |-> 0, maxTagDepth |-> 0],
   biggestCheckouts |-> TreeStatistics]

fillOutStatistics(st, ci, ti, bi, gi) ==
  [st EXCEPT
     !.repositorySize.commits.count = Cardinality(DOMAIN ci.info),
     !.repositorySize.commits.size = ci.totalSize,
     !.repositorySize.trees.count = Cardinality(DOMAIN ti.info),
     !.repositorySize.trees.size = ti.totalSize,
     !.repositorySize.trees.entries = ti.totalEntries,
     !.repositorySize.blobs.count = Cardinality(DOMAIN bi.info),
     !.repositorySize.blobs.size = bi.totalSize,
     !.repositorySize.annotatedTags.count = Cardinality(DOMAIN gi.info),
     !.biggestObjects.commits.maxSize = ci.maxSize,
     !.biggestObjects.commits.maxParents = ci.maxParents,
     !.biggestObjects.trees.maxEntries = ti.maxEntries,
     !.biggestObjects.blobs.maxSize = bi.maxSize]

\* ------------------------------------------------------------------------
\* Repositories the runs are made on
\* ------------------------------------------------------------------------
Oids(r) == DOMAIN r.odb

Repository(odb, refs) == [odb |-> odb, refs |-> refs]

EmptyRepository == Repository(EmptyMap, 0)

SingleCommitEmptyTree ==
  Repository(("c1" :> GitCommit(3, <<>>, "t0")) @@ ("t0" :> GitTree(0, <<>>)), 1)

CommitPair ==
  Repository(
    ("c1" :> GitCommit(3, <<>>, "t1")) @@
    ("c2" :> GitCommit(5, <<"c1">>, "t1")) @@
    ("t1" :> GitTree(2, <<TreeEntry(3, "FILEMODE_COMMIT", "COMMIT", "x1")>>)), 2)

OneFile ==
  Repository(
    ("c1" :> GitCommit(4, <<>>, "t1")) @@
    ("t1" :> GitTree(2, <<TreeEntry(1, "FILEMODE_BLOB", "BLOB", "b1")>>)) @@
    ("b1" :> GitBlob(10)), 1)

TagChain ==
  Repository(
    ("g2" :> GitTag("g1", "TAG")) @@
    ("g1" :> GitTag("b1", "BLOB")) @@
    ("b1" :> GitBlob(6)), 2)

Repositories == {EmptyRepository, SingleCommitEmptyTree, CommitPair, OneFile, TagChain}

\* how often git_odb_foreach yields each identifier (an object that is both
\* loose and packed is yielded twice)
Copies(r) ==
  {[o \in Oids(r) |-> 1]} \cup
  {[o \in Oids(r) |-> IF o = d THEN 1 + MaxDup ELSE 1] : d \in Oids(r)}

\* the objects for which git_object_lookup and git_odb_read fail
NoFailures == [lookup |-> {}, read |-> {}]

\* git_odb_read is called for commits and for trees only
Failures(r) ==
  {[lookup |-> L, read |-> {}] : L \in {S \in SUBSET Oids(r) : Cardinality(S) \in 1..NumWorkers}}
  \cup {[lookup |-> {}, read |-> {o}] : o \in {x \in Oids(r) : r.odb[x].type \in {"COMMIT", "TREE"}}}

\* ------------------------------------------------------------------------
\* State
\* ------------------------------------------------------------------------
VARIABLES
  repo,          \* the repository of the run: odb, refs, copies, fails
  foreachLeft,   \* identifier -> times git_odb_foreach has yet to yield it
  m_init,        \* WorkerPool::m_init
  m_workQueue,   \* WorkerPool::m_workQueue
  wpc,           \* worker -> position of its thread in DoWork
  witem,         \* worker -> identifier of the work item it holds
  joined,        \* number of threads Shutdown has joined
  mutex,         \* MutexWorkerStoreOdbData: mutex -> holder (0 = free)
  commitsInfo, treesInfo, blobsInfo, tagsInfo,   \* m_odbObjectsInfo
  m_statistics,  \* RepoAnalysis::m_statistics
  apc,           \* position of the thread that runs StatisticsWorker
  loopLeft,      \* keys the current range-for loop has yet to visit
  baton,         \* StatisticsBaton: error_code, error, out
  callback,      \* what the JavaScript callback was called with
  failedStep,    \* the step of the run that failed first ("none" if none)
  executed,      \* identifier -> Execute calls that reached the emplace
  returned,      \* identifier -> Execute calls that have returned
  m_next,        \* TrackerWrap::m_next of the list head and of every live object
  m_prev,        \* TrackerWrap::m_prev of the list head and of every live object
  m_owners,      \* TrackerWrap::m_owners of every live object
  freed,         \* the objects DeleteAll has deleted, in the order of the deletes
  tpc,           \* position of the context that owns the tracker list
  lfs,           \* GitLFS::InitializeWorker: its baton, its command, its callback
  hardware       \* what std::thread::hardware_concurrency() reports

vars == <<repo, foreachLeft, m_init, m_workQueue, wpc, witem, joined, mutex,
          commitsInfo, treesInfo, blobsInfo, tagsInfo, m_statistics, apc,
          loopLeft, baton, callback, failedStep, executed, returned,
          m_next, m_prev, m_owners, freed, tpc, lfs, hardware>>

trackerVars == <<m_next, m_prev, m_owners, freed, tpc>>
hostVars == <<lfs, hardware>>
analysisVars == <<repo, foreachLeft, m_init, m_workQueue, wpc, witem, joined, mutex,
                  commitsInfo, treesInfo, blobsInfo, tagsInfo, m_statistics, apc,
                  loopLeft, baton, callback, failedStep, executed, returned>>
poolVars == <<m_init, m_workQueue, wpc, witem, joined, mutex>>
infoVars == <<commitsInfo, treesInfo, blobsInfo, tagsInfo>>

Workers == 1..NumWorkers
Mutexes == {"mutexCommits", "mutexTrees", "mutexBlobs", "mutexTags"}
Exited == {"ExitInitialize", "ExitShutdown", "ExitExecute"}

WorkItem(oid) == [type |-> "WORKITEM", oid |-> oid]
ShutdownSignal == [type |-> "SHUTDOWN_SIGNAL", oid |-> NoOid]

InitBaton == [error_code |-> GIT_OK, error |-> FALSE, out |-> TRUE]

\* the null pointer, the head of the tracker list and the objects that can
\* be constructed
nullptr == "nullptr"
listStart == "listStart"
Wraps == {"w" \o ToString(i) : i \in 1..MaxWraps}

\* a context that has constructed no wrapper object
InitTracker ==
  /\ m_next = (listStart :> nullptr)
  /\ m_prev = (listStart :> nullptr)
  /\ m_owners = [w \in {} |-> [null |-> TRUE, owners |-> {}]]
  /\ freed = <<>>
  /\ tpc = "Tracking"

\* the LFS.initialize call that was not made yet
LfsIdle == [pc |-> "Idle"]

\* no LFS.initialize call; the pool of the specifications of the analysis
\* is run with NumWorkers threads whatever the machine reports
InitHost ==
  /\ lfs = LfsIdle
  /\ hardware = 0

\* the run that StatisticsWorker has not started, or has brought to position
InitRepo(r, position) ==
  /\ repo = r
  /\ foreachLeft = r.copies
  /\ m_init = FALSE
  /\ m_workQueue = <<>>
  /\ joined = 0
  /\ mutex = [m \in Mutexes |-> 0]
  /\ commitsInfo = InitCommitsInfo
  /\ treesInfo = InitTreesInfo
  /\ blobsInfo = InitBlobsInfo
  /\ tagsInfo = InitTagsInfo
  /\ m_statistics = InitStatistics
  /\ apc = position
  /\ loopLeft = {}
  /\ baton = InitBaton
  /\ callback = "pending"
  /\ failedStep = "none"
  /\ executed = [o \in Oids(r) |-> 0]
  /\ returned = [o \in Oids(r) |-> 0]

InitAt(r, position) ==
  /\ InitTracker
  /\ InitHost
  /\ wpc = [w \in Workers |-> "none"]
  /\ witem = [w \in Workers |-> NoOid]
  /\ InitRepo(r, position)

InitRun(r) == InitAt(r, "Idle")

Init == \E r \in Repositories :
          \/ \E c \in Copies(r) :
               InitRun([odb |-> r.odb, refs |-> r.refs, copies |-> c, fails |-> NoFailures])
          \/ \E f \in Failures(r) :
               InitRun([odb |-> r.odb, refs |-> r.refs,
                        copies |-> [o \in Oids(r) |-> 1], fails |-> f])

\* ------------------------------------------------------------------------
\* WorkerPool: the worker threads (DoWork, GetWork) and Execute
\* ------------------------------------------------------------------------
Running == apc \notin {"Terminated"}

MutexOf(type) ==
  CASE type = "COMMIT" -> "mutexCommits"
    [] type = "TREE" -> "mutexTrees"
    [] type = "BLOB" -> "mutexBlobs"
    [] type = "TAG" -> "mutexTags"

\* Execute on a tree for which git_tree_entrycount is 0 that stores it all
\* the same
IsEmptyTreeNever(target) == FALSE

\* numEntries == 0 in the tree branch of Execute
IsEmptyTree(target) == target.type = "TREE" /\ Len(target.entries) = 0

\* git_object_lookup fails, or git_odb_read fails where Execute calls it
ExecuteFails(oid) ==
  LET target == repo.odb[oid]
  IN \/ oid \in repo.fails.lookup
     \/ /\ oid \in repo.fails.read
        /\ \/ target.type = "COMMIT"
           \/ target.type = "TREE" /\ ~IsEmptyTree(target)

\* worker->Initialize(): opens the repository and its odb, or fails
WorkerInitialize(w) ==
  /\ Running
  /\ wpc[w] = "Initialize"
  /\ \E ok \in BOOLEAN : wpc' = [wpc EXCEPT ![w] = IF ok THEN "GetWork" ELSE "ExitInitialize"]
  /\ UNCHANGED <<hostVars, trackerVars, repo, foreachLeft, m_init, m_workQueue, witem, joined, mutex,
                 infoVars, m_statistics, apc, loopLeft, baton, callback,
                 failedStep, executed, returned>>

\* GetWork that pops the SHUTDOWN_SIGNAL like a work item
GetWorkPopsSignal(w) ==
  /\ Running
  /\ wpc[w] = "GetWork"
  /\ m_workQueue # <<>>
  /\ LET entity == Head(m_workQueue)
     IN /\ m_workQueue' = Tail(m_workQueue)
        /\ IF entity.type = "WORKITEM"
             THEN /\ witem' = [witem EXCEPT ![w] = entity.oid]
                  /\ wpc' = [wpc EXCEPT ![w] = "Execute"]
             ELSE /\ wpc' = [wpc EXCEPT ![w] = "ExitShutdown"]
                  /\ UNCHANGED witem
  /\ UNCHANGED <<hostVars, trackerVars, repo, foreachLeft, m_init, joined, mutex, infoVars, m_statistics,
                 apc, loopLeft, baton, callback, failedStep, executed, returned>>

\* GetWork that returns the front work item without m_workQueue.pop()
GetWorkLeavesItem(w) ==
  /\ Running
  /\ wpc[w] = "GetWork"
  /\ m_workQueue # <<>>
  /\ LET entity == Head(m_workQueue)
     IN IF entity.type = "WORKITEM"
          THEN /\ witem' = [witem EXCEPT ![w] = entity.oid]
               /\ wpc' = [wpc EXCEPT ![w] = "Execute"]
          ELSE /\ wpc' = [wpc EXCEPT ![w] = "ExitShutdown"]
               /\ UNCHANGED witem
  /\ UNCHANGED <<hostVars, trackerVars, repo, foreachLeft, m_init, m_workQueue, joined, mutex, infoVars,
                 m_statistics, apc, loopLeft, baton, callback, failedStep, executed,
                 returned>>

\* GetWork() and the test of DoWork on the entity it returns
GetWork(w) ==
  /\ Running
  /\ wpc[w] = "GetWork"
  /\ m_workQueue # <<>>
  /\ LET entity == Head(m_workQueue)
     IN IF entity.type = "WORKITEM"
          THEN /\ m_workQueue' = Tail(m_workQueue)
               /\ witem' = [witem EXCEPT ![w] = entity.oid]
               /\ wpc' = [wpc EXCEPT ![w] = "Execute"]
          ELSE /\ wpc' = [wpc EXCEPT ![w] = "ExitShutdown"]
               /\ UNCHANGED <<m_workQueue, witem>>
  /\ UNCHANGED <<hostVars, trackerVars, repo, foreachLeft, m_init, joined, mutex, infoVars, m_statistics,
                 apc, loopLeft, baton, callback, failedStep, executed, returned>>

\* Execute returns false: the thread leaves DoWork
ExecuteFail(w) ==
  /\ Running
  /\ wpc[w] = "Execute"
  /\ ExecuteFails(witem[w])
  /\ wpc' = [wpc EXCEPT ![w] = "ExitExecute"]
  /\ witem' = [witem EXCEPT ![w] = NoOid]
  /\ returned' = [returned EXCEPT ![witem[w]] = @ + 1]
  /\ UNCHANGED <<hostVars, trackerVars, repo, foreachLeft, m_init, m_workQueue, joined, mutex, infoVars,
                 m_statistics, apc, loopLeft, baton, callback, failedStep, executed>>

\* Execute on a tree without entries: returns true and stores nothing
ExecuteEmptyTree(w) ==
  /\ Running
  /\ wpc[w] = "Execute"
  /\ ~ExecuteFails(witem[w])
  /\ IsEmptyTree(repo.odb[witem[w]])
  /\ wpc' = [wpc EXCEPT ![w] = "GetWork"]
  /\ witem' = [witem EXCEPT ![w] = NoOid]
  /\ returned' = [returned EXCEPT ![witem[w]] = @ + 1]
  /\ UNCHANGED <<hostVars, trackerVars, repo, foreachLeft, m_init, m_workQueue, joined, mutex, infoVars,
                 m_statistics, apc, loopLeft, baton, callback, failedStep, executed>>

\* Execute that enters the block of the category without waiting for its mutex
ExecuteLockNoWait(w) ==
  /\ Running
  /\ wpc[w] = "Execute"
  /\ ~ExecuteFails(witem[w])
  /\ LET target == repo.odb[witem[w]]
     IN /\ ~IsEmptyTree(target)
        /\ mutex' = [mutex EXCEPT ![MutexOf(target.type)] = w]
  /\ wpc' = [wpc EXCEPT ![w] = "InLock"]
  /\ UNCHANGED <<hostVars, trackerVars, repo, foreachLeft, m_init, m_workQueue, witem, joined, infoVars,
                 m_statistics, apc, loopLeft, baton, callback, failedStep, executed, returned>>

\* Execute up to the lock_guard of the object's category
ExecuteLock(w) ==
  /\ Running
  /\ wpc[w] = "Execute"
  /\ ~ExecuteFails(witem[w])
  /\ LET target == repo.odb[witem[w]]
     IN /\ ~IsEmptyTree(target)
        /\ mutex[MutexOf(target.type)] = 0
        /\ mutex' = [mutex EXCEPT ![MutexOf(target.type)] = w]
  /\ wpc' = [wpc EXCEPT ![w] = "InLock"]
  /\ UNCHANGED <<hostVars, trackerVars, repo, foreachLeft, m_init, m_workQueue, witem, joined, infoVars,
                 m_statistics, apc, loopLeft, baton, callback, failedStep, executed, returned>>

\* Execute that returns with the mutex of the category still locked
ExecuteStoreKeepsLock(w) ==
  /\ Running
  /\ wpc[w] = "InLock"
  /\ LET oid == witem[w]
         target == repo.odb[oid]
     IN /\ commitsInfo' = IF target.type = "COMMIT"
                            THEN StoreCommit(commitsInfo, oid, target) ELSE commitsInfo
        /\ treesInfo' = IF target.type = "TREE"
                          THEN StoreTree(treesInfo, oid, target) ELSE treesInfo
        /\ blobsInfo' = IF target.type = "BLOB"
                          THEN StoreBlob(blobsInfo, oid, target) ELSE blobsInfo
        /\ tagsInfo' = IF target.type = "TAG"
                         THEN StoreTag(tagsInfo, oid, target) ELSE tagsInfo
        /\ executed' = [executed EXCEPT ![oid] = @ + 1]
        /\ returned' = [returned EXCEPT ![oid] = @ + 1]
  /\ wpc' = [wpc EXCEPT ![w] = "GetWork"]
  /\ witem' = [witem EXCEPT ![w] = NoOid]
  /\ UNCHANGED <<hostVars, trackerVars, repo, foreachLeft, m_init, m_workQueue, joined, mutex, m_statistics,
                 apc, loopLeft, baton, callback, failedStep>>

\* the block under the lock_guard, the unlock and the return of Execute
ExecuteStore(w) ==
  /\ Running
  /\ wpc[w] = "InLock"
  /\ LET oid == witem[w]
         target == repo.odb[oid]
     IN /\ commitsInfo' = IF target.type = "COMMIT"
                            THEN StoreCommit(commitsInfo, oid, target) ELSE commitsInfo
        /\ treesInfo' = IF target.type = "TREE"
                          THEN StoreTree(treesInfo, oid, target) ELSE treesInfo
        /\ blobsInfo' = IF target.type = "BLOB"
                          THEN StoreBlob(blobsInfo, oid, target) ELSE blobsInfo
        /\ tagsInfo' = IF target.type = "TAG"
                         THEN StoreTag(tagsInfo, oid, target) ELSE tagsInfo
        /\ mutex' = [mutex EXCEPT ![MutexOf(target.type)] = 0]
        /\ executed' = [executed EXCEPT ![oid] = @ + 1]
        /\ returned' = [returned EXCEPT ![oid] = @ + 1]
  /\ wpc' = [wpc EXCEPT ![w] = "GetWork"]
  /\ witem' = [witem EXCEPT ![w] = NoOid]
  /\ UNCHANGED <<hostVars, trackerVars, repo, foreachLeft, m_init, m_workQueue, joined, m_statistics,
                 apc, loopLeft, baton, callback, failedStep>>


\* ------------------------------------------------------------------------
\* The thread of StatisticsWorker: RepoAnalysis::Analyze and the callback
\* ------------------------------------------------------------------------
\* Analyze with the comparisons the other way round
AnalyzeReturnInverted(code) == IF code = GIT_OK THEN 1 ELSE 0

\* errorCode = analyzeObjects() != GIT_OK: the comparison binds tighter than
\* the assignment, so Analyze returns the truth value of the comparison
AnalyzeReturn(code) == IF code # GIT_OK THEN 1 ELSE 0

\* StatisticsWorker::Execute after Analyze returned; gitError says whether
\* git_error_last() is set on this thread
WorkerExecuteBaton(code, gitError) ==
  IF code # GIT_OK
    THEN [error_code |-> code, error |-> gitError, out |-> FALSE]
    ELSE [error_code |-> code, error |-> FALSE, out |-> TRUE]

\* numThreads without the floor of 4
NumThreadsNoFloor(hardware_concurrency) == hardware_concurrency

\* numThreads = std::max(std::thread::hardware_concurrency(), 4u)
NumThreads(hardware_concurrency) == Max(hardware_concurrency, 4)

\* analyzeObjects up to workerPool.Init(workers): the vector of numThreads
\* workers, and Init, which starts a thread for each of them
AnalyzeObjectsInitWith(numThreads) ==
  /\ apc = "Idle"
  /\ ~m_init
  /\ m_init' = TRUE
  /\ wpc' = [w \in 1..numThreads |-> "Initialize"]
  /\ witem' = [w \in 1..numThreads |-> NoOid]
  /\ apc' = "RepositoryOdb"
  /\ UNCHANGED <<hostVars, trackerVars, repo, foreachLeft, m_workQueue, joined, mutex, infoVars,
                 m_statistics, loopLeft, baton, callback, failedStep, executed, returned>>

\* analyzeObjects with the pool scaled down to NumWorkers threads
AnalyzeObjectsInit == AnalyzeObjectsInitWith(NumWorkers)

\* analyzeObjects with the number of threads it computes on this machine
AnalyzeObjectsThreads == AnalyzeObjectsInitWith(NumThreads(hardware))

\* git_repository_odb; on failure analyzeObjects returns while the threads of
\* workerPool are joinable, and destroying them calls std::terminate
RepositoryOdb ==
  /\ apc = "RepositoryOdb"
  /\ \E ok \in BOOLEAN :
       IF ok THEN apc' = "Iterating" /\ UNCHANGED failedStep
       ELSE apc' = "Terminated" /\ failedStep' = "git_repository_odb"
  /\ UNCHANGED <<hostVars, trackerVars, repo, foreachLeft, poolVars, infoVars, m_statistics, loopLeft,
                 baton, callback, executed, returned>>

\* InsertWork(item)
InsertWork(queue, item) == Append(queue, item)

\* forEachOdbCb for one identifier yielded by git_odb_foreach
ForEachOdbCb(oid) ==
  /\ apc = "Iterating"
  /\ foreachLeft[oid] > 0
  /\ m_init
  /\ foreachLeft' = [foreachLeft EXCEPT ![oid] = @ - 1]
  /\ m_workQueue' = InsertWork(m_workQueue, WorkItem(oid))
  /\ UNCHANGED <<hostVars, trackerVars, repo, m_init, wpc, witem, joined, mutex, infoVars, m_statistics,
                 apc, loopLeft, baton, callback, failedStep, executed, returned>>

\* git_odb_foreach fails: analyzeObjects returns without Shutdown
ForEachFails ==
  /\ apc = "Iterating"
  /\ apc' = "Terminated"
  /\ failedStep' = "git_odb_foreach"
  /\ UNCHANGED <<hostVars, trackerVars, repo, foreachLeft, poolVars, infoVars, m_statistics, loopLeft,
                 baton, callback, executed, returned>>

\* Shutdown that puts the SHUTDOWN_SIGNAL in front of the queued work
ShutdownSignalledAtFront ==
  /\ apc = "Iterating"
  /\ \A o \in Oids(repo) : foreachLeft[o] = 0
  /\ m_workQueue' = <<ShutdownSignal>> \o m_workQueue
  /\ joined' = 0
  /\ apc' = "Draining"
  /\ UNCHANGED <<hostVars, trackerVars, repo, foreachLeft, m_init, wpc, witem, mutex, infoVars,
                 m_statistics, loopLeft, baton, callback, failedStep, executed, returned>>

\* git_odb_foreach returned GIT_OK; Shutdown emplaces the SHUTDOWN_SIGNAL
ShutdownSignalled ==
  /\ apc = "Iterating"
  /\ \A o \in Oids(repo) : foreachLeft[o] = 0
  /\ m_workQueue' = Append(m_workQueue, ShutdownSignal)
  /\ joined' = 0
  /\ apc' = "Draining"
  /\ UNCHANGED <<hostVars, trackerVars, repo, foreachLeft, m_init, wpc, witem, mutex, infoVars,
                 m_statistics, loopLeft, baton, callback, failedStep, executed, returned>>

\* Shutdown that goes past a thread without waiting for it to end
ShutdownJoinNoWait ==
  /\ apc = "Draining"
  /\ joined < Cardinality(DOMAIN wpc)
  /\ joined' = joined + 1
  /\ UNCHANGED <<hostVars, trackerVars, repo, foreachLeft, m_init, m_workQueue, wpc, witem, mutex,
                 infoVars, m_statistics, apc, loopLeft, baton, callback,
                 failedStep, executed, returned>>

\* Shutdown: wt->join() of the next thread returns once that thread has ended
ShutdownJoin ==
  /\ apc = "Draining"
  /\ joined < Cardinality(DOMAIN wpc)
  /\ wpc[joined + 1] \in Exited
  /\ joined' = joined + 1
  /\ UNCHANGED <<hostVars, trackerVars, repo, foreachLeft, m_init, m_workQueue, wpc, witem, mutex,
                 infoVars, m_statistics, apc, loopLeft, baton, callback,
                 failedStep, executed, returned>>

\* Shutdown returns; calculateBiggestCheckouts starts its loop
ShutdownReturn ==
  /\ apc = "Draining"
  /\ joined = Cardinality(DOMAIN wpc)
  /\ m_init' = FALSE
  /\ apc' = "BiggestCheckouts"
  /\ loopLeft' = DOMAIN commitsInfo.info
  /\ UNCHANGED <<hostVars, trackerVars, repo, foreachLeft, m_workQueue, wpc, witem, joined, mutex,
                 infoVars, m_statistics, baton, callback, failedStep, executed, returned>>

\* analyzeObjects returns GIT_EUSER from an aggregation stage: no libgit2
\* call failed, so git_error_last() is not set
AggregationFails(step) ==
  /\ baton' = WorkerExecuteBaton(AnalyzeReturn(GIT_EUSER), FALSE)
  /\ failedStep' = step
  /\ apc' = "Callback"
  /\ loopLeft' = {}

\* one iteration of the loop of calculateBiggestCheckouts
BiggestCheckoutsStep ==
  /\ apc = "BiggestCheckouts"
  /\ \E c \in loopLeft :
       LET r == calculateTreeStatistics(treesInfo.info, blobsInfo.info, commitsInfo.info[c])
       IN /\ treesInfo' = [treesInfo EXCEPT !.info = r.info]
          /\ IF r.found
               THEN /\ m_statistics' =
                         [m_statistics EXCEPT !.biggestCheckouts =
                            UpdateBiggestCheckouts(@, r.info[commitsInfo.info[c]].stats)]
                    /\ loopLeft' = loopLeft \ {c}
                    /\ UNCHANGED <<apc, baton, failedStep>>
               ELSE /\ AggregationFails("calculateBiggestCheckouts")
                    /\ UNCHANGED m_statistics
  /\ UNCHANGED <<hostVars, trackerVars, repo, foreachLeft, poolVars, commitsInfo, blobsInfo, tagsInfo,
                 callback, executed, returned>>

BiggestCheckoutsDone ==
  /\ apc = "BiggestCheckouts"
  /\ loopLeft = {}
  /\ apc' = "MaxTagDepth"
  /\ loopLeft' = DOMAIN tagsInfo.info
  /\ UNCHANGED <<hostVars, trackerVars, repo, foreachLeft, poolVars, infoVars, m_statistics, baton,
                 callback, failedStep, executed, returned>>

\* one iteration of the loop of calculateMaxTagDepth
MaxTagDepthStep ==
  /\ apc = "MaxTagDepth"
  /\ \E t \in loopLeft :
       LET r == calculateTagDepth(tagsInfo.info, t)
       IN /\ tagsInfo' = [tagsInfo EXCEPT !.info = r.info]
          /\ IF r.found
               THEN /\ m_statistics' =
                         [m_statistics EXCEPT !.historyStructure.maxTagDepth =
                            Max(@, r.info[t].depth)]
                    /\ loopLeft' = loopLeft \ {t}
                    /\ UNCHANGED <<apc, baton, failedStep>>
               ELSE /\ AggregationFails("calculateMaxTagDepth")
                    /\ UNCHANGED m_statistics
  /\ UNCHANGED <<hostVars, trackerVars, repo, foreachLeft, poolVars, commitsInfo, treesInfo, blobsInfo,
                 callback, executed, returned>>

MaxTagDepthDone ==
  /\ apc = "MaxTagDepth"
  /\ loopLeft = {}
  /\ apc' = "MaxDepth"
  /\ UNCHANGED <<hostVars, trackerVars, repo, foreachLeft, poolVars, infoVars, m_statistics, loopLeft,
                 baton, callback, failedStep, executed, returned>>

\* historyStructure.maxDepth = graph.CalculateMaxDepth(); analyzeObjects returns
MaxDepth ==
  /\ apc = "MaxDepth"
  /\ LET r == CalculateMaxDepth(commitsInfo.graph)
     IN /\ commitsInfo' = [commitsInfo EXCEPT !.graph.m_mapOidNode = r.nodes]
        /\ m_statistics' = [m_statistics EXCEPT !.historyStructure.maxDepth = r.maxDepth]
  /\ apc' = "References"
  /\ UNCHANGED <<hostVars, trackerVars, repo, foreachLeft, poolVars, treesInfo, blobsInfo, tagsInfo,
                 loopLeft, baton, callback, failedStep, executed, returned>>

\* analyzeReferences, then fillOutStatistics and the rest of Execute
AnalyzeReferences ==
  /\ apc = "References"
  /\ \E ok \in BOOLEAN :
       IF ok
         THEN /\ m_statistics' =
                   fillOutStatistics(
                     [m_statistics EXCEPT !.repositorySize.references.count = repo.refs],
                     commitsInfo, treesInfo, blobsInfo, tagsInfo)
              /\ baton' = WorkerExecuteBaton(AnalyzeReturn(GIT_OK), FALSE)
              /\ UNCHANGED failedStep
         ELSE /\ baton' = WorkerExecuteBaton(AnalyzeReturn(GIT_ERROR), TRUE)
              /\ failedStep' = "git_reference_list"
              /\ UNCHANGED m_statistics
  /\ apc' = "Callback"
  /\ UNCHANGED <<hostVars, trackerVars, repo, foreachLeft, poolVars, infoVars, loopLeft, callback, executed, returned>>

\* StatisticsWorker::HandleOKCallback: the arguments the callback is called with
CallbackArguments(b) ==
  IF b.out THEN "report"
  ELSE IF b.error THEN "error"
  ELSE IF b.error_code < 0 THEN "error"
  ELSE "nothing"

HandleOKCallback ==
  /\ apc = "Callback"
  /\ callback' = CallbackArguments(baton)
  /\ apc' = "Done"
  /\ UNCHANGED <<hostVars, trackerVars, repo, foreachLeft, poolVars, infoVars, m_statistics, loopLeft,
                 baton, failedStep, executed, returned>>

Next ==
  \/ \E w \in Workers : WorkerInitialize(w)
  \/ \E w \in Workers : GetWork(w)
  \/ \E w \in Workers : ExecuteFail(w)
  \/ \E w \in Workers : ExecuteEmptyTree(w)
  \/ \E w \in Workers : ExecuteLock(w)
  \/ \E w \in Workers : ExecuteStore(w)
  \/ AnalyzeObjectsInit
  \/ RepositoryOdb
  \/ \E oid \in Oids(repo) : ForEachOdbCb(oid)
  \/ ForEachFails
  \/ ShutdownSignalled
  \/ ShutdownJoin
  \/ ShutdownReturn
  \/ BiggestCheckoutsStep
  \/ BiggestCheckoutsDone
  \/ MaxTagDepthStep
  \/ MaxTagDepthDone
  \/ MaxDepth
  \/ AnalyzeReferences
  \/ HandleOKCallback

Spec == Init /\ [][Next]_vars

TypeOK == apc \in {"Idle", "Sequential", "RepositoryOdb", "Iterating", "Draining", "BiggestCheckouts",
                   "MaxTagDepth", "MaxDepth", "References", "Callback", "Done", "Terminated"}

\* the accumulator after every object of S was handled once, one after the other
StoreObject(acc, oid, target) ==
  CASE target.type = "COMMIT" -> [acc EXCEPT !.commits = StoreCommit(@, oid, target)]
    [] target.type = "TREE" ->
         IF Len(target.entries) = 0 THEN acc
         ELSE [acc EXCEPT !.trees = StoreTree(@, oid, target)]
    [] target.type = "BLOB" -> [acc EXCEPT !.blobs = StoreBlob(@, oid, target)]
    [] target.type = "TAG" -> [acc EXCEPT !.tags = StoreTag(@, oid, target)]

RECURSIVE StoreAll(_, _, _)
StoreAll(acc, odb, S) ==
  IF S = {} THEN acc
  ELSE LET o == CHOOSE x \in S : TRUE
       IN StoreAll(StoreObject(acc, o, odb[o]), odb, S \ {o})

EmptyAccumulator ==
  [commits |-> InitCommitsInfo, trees |-> InitTreesInfo, blobs |-> InitBlobsInfo,
   tags |-> InitTagsInfo]

\* ------------------------------------------------------------------------
\* Runs of the handlers on one thread, and families of repositories
\* ------------------------------------------------------------------------
Oid(prefix, i) == prefix \o ToString(i)

\* the elements of a set of numbers in increasing order
RECURSIVE Ascending(_)
Ascending(S) ==
  IF S = {} THEN <<>>
  ELSE LET m == CHOOSE x \in S : \A y \in S : x <= y
       IN <<m>> \o Ascending(S \ {m})

\* commit histories: commit i names any set of earlier commits as parents
Histories ==
  [1..MaxCommits -> SUBSET (1..MaxCommits)] \cap
  {h \in [1..MaxCommits -> SUBSET (1..MaxCommits)] : \A i \in 1..MaxCommits : \A j \in h[i] : j < i}

HistoryRepository(h) ==
  Repository(
    [o \in {Oid("k", i) : i \in 1..MaxCommits} |->
       LET i == CHOOSE n \in 1..MaxCommits : Oid("k", n) = o
       IN GitCommit(2 + i, [n \in 1..Cardinality(h[i]) |-> Oid("k", Ascending(h[i])[n])], "t0")],
    1)

\* Execute for one work item on a single thread (the locks are free)
SequentialExecute(oid) ==
  /\ apc = "Sequential"
  /\ executed[oid] = 0
  /\ LET acc == StoreObject([commits |-> commitsInfo, trees |-> treesInfo,
                             blobs |-> blobsInfo, tags |-> tagsInfo], oid, repo.odb[oid])
     IN /\ commitsInfo' = acc.commits
        /\ treesInfo' = acc.trees
        /\ blobsInfo' = acc.blobs
        /\ tagsInfo' = acc.tags
  /\ executed' = [executed EXCEPT ![oid] = 1]
  /\ returned' = [returned EXCEPT ![oid] = 1]
  /\ UNCHANGED <<hostVars, trackerVars, repo, foreachLeft, poolVars, m_statistics, apc, loopLeft, baton,
                 callback, failedStep>>

\* every work item was executed: the history depth is calculated next
SequentialDone ==
  /\ apc = "Sequential"
  /\ \A o \in Oids(repo) : executed[o] = 1
  /\ apc' = "MaxDepth"
  /\ UNCHANGED <<hostVars, trackerVars, repo, foreachLeft, poolVars, infoVars, m_statistics, loopLeft,
                 baton, callback, failedStep, executed, returned>>

InitGraph ==
  \E h \in Histories :
    LET r == HistoryRepository(h)
    IN InitAt([odb |-> r.odb, refs |-> r.refs, copies |-> [o \in Oids(r) |-> 1],
               fails |-> NoFailures], "Sequential")

NextGraph ==
  \/ \E oid \in Oids(repo) : SequentialExecute(oid)
  \/ SequentialDone
  \/ MaxDepth

SpecGraph == InitGraph /\ [][NextGraph]_vars

\* parent relations that no repository has but AddNode accepts: the first
\* commit has no parent, every other commit names up to two commits as its
\* parents, itself and later commits included
Relations ==
  {h \in [1..(MaxCommits - 1) -> SUBSET (1..(MaxCommits - 1))] :
     h[1] = {} /\ \A i \in 1..(MaxCommits - 1) : Cardinality(h[i]) <= 2}

RelationRepository(h) ==
  Repository(
    [o \in {Oid("k", i) : i \in 1..(MaxCommits - 1)} |->
       LET i == CHOOSE n \in 1..(MaxCommits - 1) : Oid("k", n) = o
       IN GitCommit(2 + i, [n \in 1..Cardinality(h[i]) |-> Oid("k", Ascending(h[i])[n])], "t0")],
    1)

InitCycle ==
  \E h \in Relations :
    LET r == RelationRepository(h)
    IN InitAt([odb |-> r.odb, refs |-> r.refs, copies |-> [o \in Oids(r) |-> 1],
               fails |-> NoFailures], "Sequential")

SpecCycle == InitCycle /\ [][NextGraph]_vars

\* histories of a shallow repository: one commit of the history is not in
\* the object database, and its children still declare it
ShallowRepository(h, m) ==
  LET r == HistoryRepository(h)
  IN Repository([o \in DOMAIN r.odb \ {Oid("k", m)} |-> r.odb[o]], r.refs)

InitShallow ==
  \E h \in Histories : \E m \in 1..MaxCommits :
    LET r == ShallowRepository(h, m)
    IN InitAt([odb |-> r.odb, refs |-> r.refs, copies |-> [o \in Oids(r) |-> 1],
               fails |-> NoFailures], "Sequential")

SpecShallow == InitShallow /\ [][NextGraph]_vars

\* the entries a tree holds besides its sub-trees: none; one file; a file
\* with a long name, a symbolic link whose blob is not in the object database
\* and a submodule; a file whose blob is not in the object database
LeafProfiles ==
  << <<>>,
     <<TreeEntry(1, "FILEMODE_BLOB", "BLOB", "b1")>>,
     <<TreeEntry(6, "FILEMODE_BLOB", "BLOB", "b2"),
       TreeEntry(2, "FILEMODE_LINK", "BLOB", "b3"),
       TreeEntry(3, "FILEMODE_COMMIT", "COMMIT", "x1")>>,
     <<TreeEntry(2, "FILEMODE_BLOB", "BLOB", "b0")>> >>

\* trees of trees: tree i holds any set of earlier trees as sub-trees (an
\* earlier tree may be the sub-tree of several trees) and one leaf profile;
\* the file whose blob is missing is in the first tree, which every later
\* tree may hold
Forests ==
  {[subs |-> s, leaf |-> l] :
     s \in {x \in [1..MaxTrees -> SUBSET (1..MaxTrees)] :
              \A i \in 1..MaxTrees : \A j \in x[i] : j < i},
     l \in {y \in [1..MaxTrees -> 1..Len(LeafProfiles)] :
              \A i \in 2..MaxTrees : y[i] < Len(LeafProfiles)}}

SubTreeEntries(S) ==
  [n \in 1..Cardinality(S) |->
     TreeEntry(2 * Ascending(S)[n], "FILEMODE_TREE", "TREE", Oid("d", Ascending(S)[n]))]

\* commit c1 has the last tree as its root, commit c2 the same tree or the
\* tree before it
SecondRoots == {MaxTrees - 1, MaxTrees}

ForestRepository(f, root) ==
  Repository(
    [o \in {Oid("d", i) : i \in 1..MaxTrees} |->
       LET i == CHOOSE n \in 1..MaxTrees : Oid("d", n) = o
           entries == SubTreeEntries(f.subs[i]) \o LeafProfiles[f.leaf[i]]
       IN GitTree(10 + Len(entries), entries)] @@
    ("c1" :> GitCommit(3, <<>>, Oid("d", MaxTrees))) @@
    ("c2" :> GitCommit(5, <<"c1">>, Oid("d", root))) @@
    ("b1" :> GitBlob(5)) @@
    ("b2" :> GitBlob(7)), 1)

\* chains of annotated tags: tag i points at an earlier tag, at the blob b1
\* (0), or at a tag that is not in the object database (-1)
TagTargets ==
  {g \in [1..MaxTags -> (0 - 1)..MaxTags] : \A i \in 1..MaxTags : g[i] < i}

TagsRepository(g) ==
  Repository(
    [o \in {Oid("g", i) : i \in 1..MaxTags} |->
       LET i == CHOOSE n \in 1..MaxTags : Oid("g", n) = o
       IN IF g[i] = 0 THEN GitTag("b1", "BLOB")
          ELSE IF g[i] < 0 THEN GitTag("gx", "TAG")
          ELSE GitTag(Oid("g", g[i]), "TAG")] @@
    ("b1" :> GitBlob(5)), 1)

\* the state in which Shutdown has returned after the workers handled every
\* object of the repository
InitDrained(r) ==
  LET acc == StoreAll(EmptyAccumulator, r.odb, Oids(r))
  IN /\ InitTracker
     /\ InitHost
     /\ repo = [odb |-> r.odb, refs |-> r.refs, copies |-> [o \in Oids(r) |-> 1],
                fails |-> NoFailures]
     /\ foreachLeft = [o \in Oids(r) |-> 0]
     /\ m_init = FALSE
     /\ m_workQueue = <<ShutdownSignal>>
     /\ wpc = [w \in Workers |-> "ExitShutdown"]
     /\ witem = [w \in Workers |-> NoOid]
     /\ joined = NumWorkers
     /\ mutex = [m \in Mutexes |-> 0]
     /\ commitsInfo = acc.commits
     /\ treesInfo = acc.trees
     /\ blobsInfo = acc.blobs
     /\ tagsInfo = acc.tags
     /\ m_statistics = InitStatistics
     /\ apc = "BiggestCheckouts"
     /\ loopLeft = DOMAIN acc.commits.info
     /\ baton = InitBaton
     /\ callback = "pending"
     /\ failedStep = "none"
     /\ executed = [o \in Oids(r) |->
                      IF r.odb[o].type = "TREE" /\ Len(r.odb[o].entries) = 0 THEN 0 ELSE 1]
     /\ returned = [o \in Oids(r) |-> 1]

InitAggregate ==
  \/ \E f \in Forests : \E root \in SecondRoots : InitDrained(ForestRepository(f, root))
  \/ \E g \in TagTargets : InitDrained(TagsRepository(g))

NextAggregate ==
  \/ BiggestCheckoutsStep
  \/ BiggestCheckoutsDone
  \/ MaxTagDepthStep
  \/ MaxTagDepthDone
  \/ MaxDepth
  \/ AnalyzeReferences
  \/ HandleOKCallback

SpecAggregate == InitAggregate /\ [][NextAggregate]_vars

\* the aggregation stages over the forests of trees, with one tag of a blob
TaggedForestRepository(f, root) ==
  [ForestRepository(f, root) EXCEPT !.odb = @ @@ ("g1" :> GitTag("b1", "BLOB"))]

InitRollUp ==
  \E f \in Forests : \E root \in SecondRoots : InitDrained(TaggedForestRepository(f, root))

NextRollUp ==
  \/ BiggestCheckoutsStep
  \/ BiggestCheckoutsDone
  \/ MaxTagDepthStep
  \/ MaxTagDepthDone
  \/ MaxDepth
  \/ AnalyzeReferences
  \/ HandleOKCallback

SpecRollUp == InitRollUp /\ [][NextRollUp]_vars

\* the aggregation stages over the chains of tags alone
InitTags == \E g \in TagTargets : InitDrained(TagsRepository(g))

NextTags ==
  \/ BiggestCheckoutsDone
  \/ MaxTagDepthStep
  \/ MaxTagDepthDone
  \/ MaxDepth
  \/ AnalyzeReferences
  \/ HandleOKCallback

SpecTags == InitTags /\ [][NextTags]_vars

\* the threads of the program are scheduled by the operating system: a
\* thread that can take a step eventually takes one
WorkerStep(w) ==
  \/ WorkerInitialize(w)
  \/ GetWork(w)
  \/ ExecuteFail(w)
  \/ ExecuteEmptyTree(w)
  \/ ExecuteLock(w)
  \/ ExecuteStore(w)

ShutdownStep == ShutdownJoin \/ ShutdownReturn

\* the runs in which every identifier is yielded once, with every choice of
\* objects that cannot be read
InitLive ==
  \E r \in Repositories : \E f \in {NoFailures} \cup Failures(r) :
    InitRun([odb |-> r.odb, refs |-> r.refs, copies |-> [o \in Oids(r) |-> 1], fails |-> f])

SpecLive ==
  InitLive /\ [][Next]_vars /\ WF_vars(ShutdownStep) /\ \A w \in Workers : WF_vars(WorkerStep(w))

\* the thread of StatisticsWorker: every step of Analyze and of the callback
AnalyzerStep ==
  \/ AnalyzeObjectsInit
  \/ RepositoryOdb
  \/ \E oid \in Oids(repo) : ForEachOdbCb(oid)
  \/ ForEachFails
  \/ ShutdownSignalled
  \/ ShutdownStep
  \/ BiggestCheckoutsStep
  \/ BiggestCheckoutsDone
  \/ MaxTagDepthStep
  \/ MaxTagDepthDone
  \/ MaxDepth
  \/ AnalyzeReferences
  \/ HandleOKCallback

\* every thread of the run is scheduled
SpecRun ==
  InitLive /\ [][Next]_vars /\ WF_vars(AnalyzerStep) /\ \A w \in Workers : WF_vars(WorkerStep(w))

\* ------------------------------------------------------------------------
\* Reference notions used by the properties
\* ------------------------------------------------------------------------
RECURSIVE SumOver(_, _)
SumOver(f, S) ==
  IF S = {} THEN 0
  ELSE LET x == CHOOSE y \in S : TRUE IN f[x] + SumOver(f, S \ {x})

Count(seq, x) == Cardinality({i \in 1..Len(seq) : seq[i] = x})

OfType(type) == {o \in Oids(repo) : repo.odb[o].type = type}

NoWorkerFailedInitialize == \A w \in Workers : wpc[w] # "ExitInitialize"

RECURSIVE CheckoutsOfAll(_, _, _, _, _)
CheckoutsOfAll(trees, blobs, roots, left, big) ==
  IF left = {} THEN [ok |-> TRUE, trees |-> trees, big |-> big]
  ELSE LET c == CHOOSE x \in left : TRUE
           r == calculateTreeStatistics(trees, blobs, roots[c])
       IN IF ~r.found THEN [ok |-> FALSE, trees |-> r.info, big |-> big]
          ELSE CheckoutsOfAll(r.info, blobs, roots, left \ {c},
                              UpdateBiggestCheckouts(big, r.info[roots[c]].stats))

RECURSIVE TagDepthOfAll(_, _, _)
TagDepthOfAll(tags, left, maxTagDepth) ==
  IF left = {} THEN [ok |-> TRUE, maxTagDepth |-> maxTagDepth]
  ELSE LET t == CHOOSE x \in left : TRUE
           r == calculateTagDepth(tags, t)
       IN IF ~r.found THEN [ok |-> FALSE, maxTagDepth |-> maxTagDepth]
          ELSE TagDepthOfAll(r.info, left \ {t}, Max(maxTagDepth, r.info[t].depth))

\* the outcome of the run in which one worker handles every readable object
\* and every later step succeeds
SequentialRun(r) ==
  LET readable == {o \in Oids(r) :
                     /\ o \notin r.fails.lookup
                     /\ ~(/\ o \in r.fails.read
                          /\ \/ r.odb[o].type = "COMMIT"
                             \/ r.odb[o].type = "TREE" /\ Len(r.odb[o].entries) # 0)}
      acc == StoreAll(EmptyAccumulator, r.odb, readable)
      co == CheckoutsOfAll(acc.trees.info, acc.blobs.info, acc.commits.info,
                           DOMAIN acc.commits.info, TreeStatistics)
      td == TagDepthOfAll(acc.tags.info, DOMAIN acc.tags.info, 0)
      md == CalculateMaxDepth(acc.commits.graph)
      st == [InitStatistics EXCEPT
               !.biggestCheckouts = co.big,
               !.historyStructure.maxTagDepth = td.maxTagDepth,
               !.historyStructure.maxDepth = md.maxDepth,
               !.repositorySize.references.count = r.refs]
  IN [ok |-> co.ok /\ td.ok,
      report |-> fillOutStatistics(st, acc.commits, acc.trees, acc.blobs, acc.tags)]

\* ------------------------------------------------------------------------
\* Properties
\* ------------------------------------------------------------------------

\* the number of commits on the longest path that ends in commit c and
\* starts at a commit without parents
RECURSIVE PathLength(_, _)
PathLength(odb, c) ==
  LET ps == SeqRange(odb[c].parents)
      longest == CHOOSE n \in {PathLength(odb, p) : p \in ps} \cup {0} :
                   \A p \in ps : PathLength(odb, p) <= n
  IN 1 + longest

LongestPath(odb) ==
  LET commits == {o \in DOMAIN odb : odb[o].type = "COMMIT"}
  IN CHOOSE n \in {PathLength(odb, c) : c \in commits} \cup {0} :
       \A c \in commits : PathLength(odb, c) <= n

\* C1: for every acyclic history and every order in which its commits were
\* handed to AddNode, CalculateMaxDepth returns the number of commits on the
\* longest path from a parentless commit to a commit without children.
C1_MaxDepthIsLongestPath ==
  apc = "References" =>
    m_statistics.historyStructure.maxDepth = LongestPath(repo.odb)

\* the diamond k1, k2(k1), k3(k1), k4(k1, k2, k3) gave 3 although k4 was
\* added before its parents k2 and k3 (it is the first child of k1), which
\* were placeholders until their own AddNode
C1_Witness ==
  /\ apc = "References"
  /\ repo.odb["k4"].parents = <<"k1", "k2", "k3">>
  /\ repo.odb["k3"].parents = <<"k1">>
  /\ repo.odb["k2"].parents = <<"k1">>
  /\ commitsInfo.graph.m_mapOidNode["k1"].children[1] = "k4"
  /\ m_statistics.historyStructure.maxDepth = 3

\* C2: in every state, whatever the interleaving of the workers and however
\* often an identifier was submitted, the contribution of every identifier in
\* a table was applied exactly once: the total size (and total entries) of a
\* category is the sum over the identifiers in its table, an identifier that
\* was executed is in its table, every commit without parents is once in the
\* roots and every commit is in the children of a parent as often as it
\* names that parent.
C2_AppliedExactlyOnce ==
  LET commits == DOMAIN commitsInfo.info
      trees == DOMAIN treesInfo.info
      blobs == DOMAIN blobsInfo.info
      nodes == commitsInfo.graph.m_mapOidNode
  IN /\ commits \subseteq OfType("COMMIT")
     /\ trees \subseteq OfType("TREE")
     /\ blobs \subseteq OfType("BLOB")
     /\ DOMAIN tagsInfo.info \subseteq OfType("TAG")
     /\ \A o \in Oids(repo) :
          executed[o] > 0 =>
            o \in commits \cup trees \cup blobs \cup DOMAIN tagsInfo.info
     /\ commitsInfo.totalSize = SumOver([o \in commits |-> repo.odb[o].size], commits)
     /\ treesInfo.totalSize = SumOver([o \in trees |-> repo.odb[o].size], trees)
     /\ treesInfo.totalEntries =
          SumOver([o \in trees |-> Len(repo.odb[o].entries)], trees)
     /\ blobsInfo.totalSize = SumOver([o \in blobs |-> repo.odb[o].size], blobs)
     /\ \A c \in OfType("COMMIT") :
          Count(commitsInfo.graph.m_roots, c) =
            IF c \in commits /\ repo.odb[c].parents = <<>> THEN 1 ELSE 0
     /\ \A p \in DOMAIN nodes : \A c \in OfType("COMMIT") :
          Count(nodes[p].children, c) =
            IF c \in commits THEN Count(repo.odb[c].parents, p) ELSE 0

\* an identifier that was yielded twice has been executed twice, as a commit
\* with a parent
C2_Witness ==
  \E c \in DOMAIN commitsInfo.info :
    /\ executed[c] >= 2
    /\ repo.odb[c].parents # <<>>
    /\ commitsInfo.totalSize > repo.odb[c].size

\* C3: a Report that is delivered (no worker having failed to open the
\* repository) is the Report of the sequential run over the same repository,
\* whatever the order of iteration and the schedule of the workers.
C3_ReportOfRepository ==
  (callback = "report" /\ NoWorkerFailedInitialize /\ SequentialRun(repo).ok)
    => m_statistics = SequentialRun(repo).report

\* C4: a run that completes has delivered an error or a Report, and an error
\* when one of its steps failed.
C4_FailedStepDeliversError ==
  apc = "Done" =>
    /\ callback \in {"error", "report"}
    /\ failedStep # "none" => callback = "error"

\* C5: no Report is delivered by a run in which the handler of a work item
\* failed.
C5_HandlerFailureFailsRun ==
  callback = "report" => \A w \in Workers : wpc[w] # "ExitExecute"

\* C6: a run on the repository of one parentless commit with the empty tree,
\* in which nothing fails to be read, delivers a Report with commits.count = 1,
\* trees.count = 0, maxDepth = 1 and biggestCheckouts all 0.
C6_SingleCommitEmptyTree ==
  (/\ apc = "Done"
   /\ repo.odb = SingleCommitEmptyTree.odb
   /\ repo.fails = NoFailures
   /\ NoWorkerFailedInitialize
   /\ failedStep # "git_reference_list")
    => /\ callback = "report"
       /\ m_statistics.repositorySize.commits.count = 1
       /\ m_statistics.repositorySize.trees.count = 0
       /\ m_statistics.historyStructure.maxDepth = 1
       /\ m_statistics.biggestCheckouts = TreeStatistics

\* the greatest element of a set of naturals, 0 for the empty set
MaxOf(S) == CHOOSE m \in S \cup {0} : \A x \in S : x <= m

\* the roll-up of a tree by plain recursion over the objects of the
\* repository, without table and without memo
RECURSIVE RollUp(_, _)
RollUp(odb, t) ==
  LET es == odb[t].entries
      ix == 1..Len(es)
      files == {i \in ix : es[i].etype = "BLOB" /\ es[i].filemode # "FILEMODE_LINK"}
      links == {i \in ix : es[i].etype = "BLOB" /\ es[i].filemode = "FILEMODE_LINK"}
      modules == {i \in ix : es[i].etype = "COMMIT" /\ es[i].filemode = "FILEMODE_COMMIT"}
      subs == {i \in ix : es[i].etype = "TREE"}
      child == [i \in subs |-> RollUp(odb, es[i].oid)]
  IN [numDirectories |-> 1 + SumOver([i \in subs |-> child[i].numDirectories], subs),
      maxPathDepth |-> MaxOf({1} \cup {child[i].maxPathDepth + 1 : i \in subs}),
      maxPathLength |->
        MaxOf({es[i].nameLen : i \in files}
              \cup {es[i].nameLen + 1 + child[i].maxPathLength : i \in subs}),
      numFiles |-> Cardinality(files) + SumOver([i \in subs |-> child[i].numFiles], subs),
      totalFileSize |-> SumOver([i \in files |-> odb[es[i].oid].size], files)
                        + SumOver([i \in subs |-> child[i].totalFileSize], subs),
      numSymlinks |-> Cardinality(links) + SumOver([i \in subs |-> child[i].numSymlinks], subs),
      numSubmodules |->
        Cardinality(modules) + SumOver([i \in subs |-> child[i].numSubmodules], subs)]

\* the tree, its sub-trees at every depth and the blobs of their files are
\* objects of the repository
RECURSIVE WellFormed(_, _)
WellFormed(odb, t) ==
  /\ t \in DOMAIN odb
  /\ odb[t].type = "TREE"
  /\ \A i \in 1..Len(odb[t].entries) :
       LET e == odb[t].entries[i]
       IN /\ (e.etype = "BLOB" /\ e.filemode # "FILEMODE_LINK") => e.oid \in DOMAIN odb
          /\ e.etype = "TREE" => WellFormed(odb, e.oid)

RootOf(c) == commitsInfo.info[c]

\* C7: in a run that delivered a Report, each field of biggestCheckouts is the
\* maximum of that field over the roll-ups of the root trees of the commits
\* in the commits table (0 without commits), field by field.
C7_BiggestCheckoutsPerField ==
  callback = "report" =>
    LET rollUp == [c \in DOMAIN commitsInfo.info |-> RollUp(repo.odb, RootOf(c))]
    IN \A field \in DOMAIN TreeStatistics :
         m_statistics.biggestCheckouts[field] =
           MaxOf({rollUp[c][field] : c \in DOMAIN commitsInfo.info})

\* a Report whose numFiles comes from the root tree of one commit and whose
\* maxPathLength comes from the root tree of another
C7_Witness ==
  /\ callback = "report"
  /\ \E c, d \in DOMAIN commitsInfo.info :
       /\ RollUp(repo.odb, RootOf(c)).numFiles > RollUp(repo.odb, RootOf(d)).numFiles
       /\ RollUp(repo.odb, RootOf(d)).maxPathLength > RollUp(repo.odb, RootOf(c)).maxPathLength
       /\ m_statistics.biggestCheckouts.numFiles = RollUp(repo.odb, RootOf(c)).numFiles
       /\ m_statistics.biggestCheckouts.maxPathLength =
            RollUp(repo.odb, RootOf(d)).maxPathLength

\* C8: for every tree of a tree-of-trees whose trees and file blobs are all
\* objects of the repository, calculateTreeStatistics yields the statistics
\* of the plain recursive roll-up (numDirectories = 1 + sum of the sub-trees,
\* maxPathDepth = max(1, sub-tree + 1), maxPathLength = max(own file names,
\* name + 1 + sub-tree), sums for the other fields), also when sub-trees are
\* shared: a completed roll-up holds these values, and the roll-up of such a
\* tree does not fail.
C8_RollUpIsRecursiveSum ==
  /\ \A t \in DOMAIN treesInfo.info :
       treesInfo.info[t].statsDone => treesInfo.info[t].stats = RollUp(repo.odb, t)
  /\ failedStep = "calculateBiggestCheckouts" =>
       \E c \in DOMAIN commitsInfo.info : ~WellFormed(repo.odb, RootOf(c))

\* the number of tags on the chain that starts at tag t
RECURSIVE ChainLength(_, _)
ChainLength(odb, t) ==
  IF odb[t].ttype = "TAG" THEN 1 + ChainLength(odb, odb[t].target) ELSE 1

\* C9: in a run that delivered a Report, maxTagDepth is the length of the
\* longest chain of tags that ends at an object that is no tag, whatever the
\* order in which calculateMaxTagDepth visited the tags (0 without tags).
C9_MaxTagDepthIsLongestChain ==
  callback = "report" =>
    m_statistics.historyStructure.maxTagDepth =
      MaxOf({ChainLength(repo.odb, t) : t \in DOMAIN tagsInfo.info})

\* a chain of three tags that ends at a blob gave 3
C9_Witness ==
  /\ callback = "report"
  /\ DOMAIN tagsInfo.info # {}
  /\ \E t \in DOMAIN tagsInfo.info :
       /\ tagsInfo.info[t].typeTarget = "TAG"
       /\ tagsInfo.info[tagsInfo.info[t].oidTarget].typeTarget = "TAG"
       /\ ChainLength(repo.odb, t) = 3
  /\ m_statistics.historyStructure.maxTagDepth = 3

\* C10: Shutdown terminates, and it has returned only when every worker thread
\* has left DoWork and was joined.
C10_ShutdownJoinsAll ==
  /\ (apc = "Draining") ~> (apc # "Draining")
  /\ [](apc \in {"BiggestCheckouts", "MaxTagDepth", "MaxDepth", "References",
                 "Callback", "Done"}
          => joined = NumWorkers /\ \A w \in Workers : wpc[w] \in Exited)

\* Shutdown has returned although every worker had left early, on a failed
\* Initialize or Execute, and work is still in the queue
C10_Witness ==
  /\ apc = "BiggestCheckouts"
  /\ ~m_init
  /\ \A w \in Workers : wpc[w] \in {"ExitInitialize", "ExitExecute"}
  /\ \E w \in Workers : wpc[w] = "ExitExecute"
  /\ Len(m_workQueue) > 1

\* ------------------------------------------------------------------------
\* The work items of a run
\* ------------------------------------------------------------------------
\* the positions of analyzeObjects and Analyze after workerPool.Shutdown()
ShutdownReturned ==
  apc \in {"BiggestCheckouts", "MaxTagDepth", "MaxDepth", "References", "Callback", "Done"}

\* work items for oid that InsertWork has put in the queue
Inserted(oid) == repo.copies[oid] - foreachLeft[oid]

\* work items for oid that are in the queue
InQueue(oid) ==
  Cardinality({i \in 1..Len(m_workQueue) :
                 m_workQueue[i].type = "WORKITEM" /\ m_workQueue[i].oid = oid})

\* workers inside Execute on a work item for oid
Held(oid) == Cardinality({w \in Workers : witem[w] = oid})

\* C11: every work item that InsertWork put in the queue is in the queue, in
\* the hands of one worker, or has been executed once (none is lost, none is
\* taken twice); and when Shutdown has returned and some worker left on the
\* SHUTDOWN_SIGNAL, every inserted work item has been executed and none is in
\* the queue or in a worker's hands, also when other workers left early.
C11_EachWorkItemExecutedOnce ==
  /\ \A oid \in Oids(repo) : Inserted(oid) = InQueue(oid) + Held(oid) + returned[oid]
  /\ (ShutdownReturned /\ \E w \in Workers : wpc[w] = "ExitShutdown") =>
       \A oid \in Oids(repo) :
         /\ returned[oid] = repo.copies[oid]
         /\ InQueue(oid) = 0
         /\ Held(oid) = 0

\* Shutdown has returned, one worker left on a failed Execute, another left
\* on the SHUTDOWN_SIGNAL after it executed the work items that remained
C11_Witness ==
  /\ ShutdownReturned
  /\ \E w \in Workers : wpc[w] = "ExitExecute"
  /\ \E w \in Workers : wpc[w] = "ExitShutdown"
  /\ \A oid \in Oids(repo) : returned[oid] = repo.copies[oid]
  /\ \E oid \in Oids(repo) : executed[oid] = 1 /\ oid \notin repo.fails.lookup

\* C12: once Shutdown has returned, every worker thread has left DoWork and
\* holds no mutex, and no step changes the position of a worker, the work
\* item it holds, the queue, or the number of Execute calls made: what the
\* roll-up, tag-depth and max-depth stages change in the tables, they change
\* on the thread of analyzeObjects alone.
C12_QuiescedAfterShutdown ==
  [][ShutdownReturned =>
       /\ \A w \in Workers : wpc[w] \in Exited /\ witem[w] = NoOid
       /\ \A m \in Mutexes : mutex[m] = 0
       /\ wpc' = wpc
       /\ witem' = witem
       /\ mutex' = mutex
       /\ m_workQueue' = m_workQueue
       /\ executed' = executed
       /\ returned' = returned
       /\ DOMAIN commitsInfo'.info = DOMAIN commitsInfo.info
       /\ DOMAIN treesInfo'.info = DOMAIN treesInfo.info
       /\ blobsInfo' = blobsInfo
       /\ DOMAIN tagsInfo'.info = DOMAIN tagsInfo.info]_vars

\* the max-depth stage is reached after workers stored a commit and a tree
C12_Witness ==
  /\ apc = "MaxDepth"
  /\ \E c \in DOMAIN commitsInfo.info : executed[c] > 0
  /\ \E t \in DOMAIN treesInfo.info : treesInfo.info[t].statsDone
  /\ \A w \in Workers : wpc[w] \in Exited

\* the positions at which analyzeObjects has returned
AnalyzeObjectsReturned == apc \in {"Terminated", "References", "Callback", "Done"}

\* C13: whenever analyzeObjects has returned, on the path through Shutdown
\* and on the paths on which git_repository_odb or git_odb_foreach failed,
\* the pool has been shut down (m_init is false) and every worker thread has
\* left DoWork and has been joined.
C13_ShutdownOnEveryReturn ==
  AnalyzeObjectsReturned =>
    /\ ~m_init
    /\ joined = NumWorkers
    /\ \A w \in Workers : wpc[w] \in Exited

\* the run has ended: the callback was called, or the process was terminated
RunEnded == apc \in {"Done", "Terminated"}

\* C14: a thread holds at most one of the category mutexes, and only inside
\* the locked block of Execute (never while it is in GetWork, which takes the
\* queue mutex); and every run ends, by the call of the callback, which is
\* made only when every worker has left its waits and DoWork, or by the
\* termination of the process: no thread waits for ever for a mutex or for
\* the queue.
C14_NoDeadlock ==
  /\ [](\A w \in Workers :
          /\ Cardinality({m \in Mutexes : mutex[m] = w}) <= 1
          /\ (\E m \in Mutexes : mutex[m] = w) <=> wpc[w] = "InLock")
  /\ [](apc = "Done" => \A w \in Workers : wpc[w] \in Exited)
  /\ <>RunEnded

\* a worker waits in Execute for the mutex of commits that another worker
\* holds, while the queue is empty
C14_Witness ==
  \E w, v \in Workers :
    /\ w # v
    /\ wpc[w] = "Execute"
    /\ repo.odb[witem[w]].type = "COMMIT"
    /\ ~ExecuteFails(witem[w])
    /\ mutex["mutexCommits"] = v
    /\ wpc[v] = "InLock"
    /\ m_workQueue = <<>>

\* C15: in every state, the total of a category is the sum, and its maximum
\* the greatest value, over the objects whose identifiers are in the table of
\* the category (sizes of commits, trees and blobs, entries of trees, parents
\* of commits); and the counts, sizes and maxima of a delivered Report are
\* the sizes of the tables and these totals and maxima.
C15_TotalsMatchTables ==
  LET commits == DOMAIN commitsInfo.info
      trees == DOMAIN treesInfo.info
      blobs == DOMAIN blobsInfo.info
      size == [o \in Oids(repo) |-> repo.odb[o].size]
      entries == [o \in Oids(repo) |-> Len(repo.odb[o].entries)]
      parents == [o \in Oids(repo) |-> Len(repo.odb[o].parents)]
      rs == m_statistics.repositorySize
      bo == m_statistics.biggestObjects
  IN /\ commitsInfo.totalSize = SumOver(size, commits)
     /\ commitsInfo.maxSize = MaxOf({size[o] : o \in commits})
     /\ commitsInfo.maxParents = MaxOf({parents[o] : o \in commits})
     /\ treesInfo.totalSize = SumOver(size, trees)
     /\ treesInfo.totalEntries = SumOver(entries, trees)
     /\ treesInfo.maxEntries = MaxOf({entries[o] : o \in trees})
     /\ blobsInfo.totalSize = SumOver(size, blobs)
     /\ blobsInfo.maxSize = MaxOf({size[o] : o \in blobs})
     /\ callback = "report" =>
          /\ rs.commits = [count |-> Cardinality(commits), size |-> SumOver(size, commits)]
          /\ rs.trees = [count |-> Cardinality(trees), size |-> SumOver(size, trees),
                         entries |-> SumOver(entries, trees)]
          /\ rs.blobs = [count |-> Cardinality(blobs), size |-> SumOver(size, blobs)]
          /\ rs.annotatedTags = [count |-> Cardinality(DOMAIN tagsInfo.info)]
          /\ bo.commits = [maxSize |-> MaxOf({size[o] : o \in commits}),
                           maxParents |-> MaxOf({parents[o] : o \in commits})]
          /\ bo.trees = [maxEntries |-> MaxOf({entries[o] : o \in trees})]
          /\ bo.blobs = [maxSize |-> MaxOf({size[o] : o \in blobs})]

\* a Report over two commits, one the parent of the other, and one tree
C15_Witness ==
  /\ callback = "report"
  /\ m_statistics.repositorySize.commits.count = 2
  /\ m_statistics.repositorySize.trees.count = 1
  /\ m_statistics.biggestObjects.commits.maxParents = 1
  /\ \E c \in DOMAIN commitsInfo.info :
       /\ repo.odb[c].parents = <<>>
       /\ commitsInfo.graph.m_mapOidNode[c].children # <<>>
       /\ commitsInfo.graph.m_roots = <<c>>

\* every numeric field of the Report is 0
AllZero(st) ==
  /\ \A c \in DOMAIN st.repositorySize :
       \A f \in DOMAIN st.repositorySize[c] : st.repositorySize[c][f] = 0
  /\ \A c \in DOMAIN st.biggestObjects :
       \A f \in DOMAIN st.biggestObjects[c] : st.biggestObjects[c][f] = 0
  /\ \A f \in DOMAIN st.historyStructure : st.historyStructure[f] = 0
  /\ \A f \in DOMAIN st.biggestCheckouts : st.biggestCheckouts[f] = 0

\* C16: the run on the repository without objects and without references
\* ends; when none of the calls of Analyze into libgit2 failed it ends with a
\* Report whose numeric fields are all 0, no worker has taken a work item, and
\* every worker that opened the repository left on the SHUTDOWN_SIGNAL.
C16_EmptyRepository ==
  /\ Oids(repo) = {} ~> RunEnded
  /\ []((Oids(repo) = {} /\ repo.refs = 0 /\ RunEnded /\ failedStep = "none") =>
         /\ apc = "Done"
         /\ callback = "report"
         /\ AllZero(m_statistics)
         /\ \A w \in Workers : wpc[w] \in {"ExitShutdown", "ExitInitialize"}
         /\ \A w \in Workers : witem[w] = NoOid
         /\ m_workQueue = <<ShutdownSignal>>)

\* the Report of the empty repository was delivered after a worker left on
\* the SHUTDOWN_SIGNAL
C16_Witness ==
  /\ Oids(repo) = {}
  /\ repo.refs = 0
  /\ callback = "report"
  /\ AllZero(m_statistics)
  /\ \E w \in Workers : wpc[w] = "ExitShutdown"

\* the state of the run the analyzer thread is in: 0 Idle, 1 Iterating (from
\* workerPool.Init to the return of git_odb_foreach), 2 Draining (Shutdown),
\* 3 Aggregating, 4 Done or Failed
Phase ==
  CASE apc = "Idle" -> 0
    [] apc \in {"RepositoryOdb", "Iterating"} -> 1
    [] apc = "Draining" -> 2
    [] apc \in {"BiggestCheckouts", "MaxTagDepth", "MaxDepth", "References"} -> 3
    [] OTHER -> 4

\* the number of work items in the queue
QueuedWork == Cardinality({i \in 1..Len(m_workQueue) : m_workQueue[i].type = "WORKITEM"})

\* C17: the run goes from Idle through Iterating, Draining and Aggregating to
\* Done, or leaves to Failed, and never back; work items are inserted only in
\* Iterating, aggregation starts only when Shutdown has joined every thread,
\* and outside Iterating and Draining no worker thread is running.
C17_StatesInOrder ==
  /\ [][/\ Phase' >= Phase
        /\ Phase' # Phase => Phase' = Phase + 1 \/ Phase' = 4
        /\ QueuedWork' > QueuedWork => apc = "Iterating"
        /\ (Phase' = 3 /\ Phase = 2) =>
             joined = NumWorkers /\ \A w \in Workers : wpc[w] \in Exited]_vars
  /\ [](Phase \notin {1, 2} => \A w \in Workers : wpc[w] \in Exited \cup {"none"})

IsLink(te) == te.etype = "BLOB" /\ te.filemode = "FILEMODE_LINK"
IsFile(te) == te.etype = "BLOB" /\ te.filemode # "FILEMODE_LINK"
IsSubmodule(te) == te.etype = "COMMIT" /\ te.filemode = "FILEMODE_COMMIT"

\* the tree without the entries that drop selects
Without(tree, drop(_)) ==
  [tree EXCEPT !.entries = SelectSeq(@, LAMBDA te : ~drop(te))]

\* the roll-up of a tree with entries es from the statistics sub(oid) of its
\* sub-trees
Level(es, sub(_)) ==
  LET ix == 1..Len(es)
      files == {i \in ix : IsFile(es[i])}
      subs == {i \in ix : es[i].etype = "TREE"}
      child == [i \in subs |-> sub(es[i].oid)]
  IN [numDirectories |-> 1 + SumOver([i \in subs |-> child[i].numDirectories], subs),
      maxPathDepth |-> MaxOf({1} \cup {child[i].maxPathDepth + 1 : i \in subs}),
      maxPathLength |->
        MaxOf({es[i].nameLen : i \in files}
              \cup {es[i].nameLen + 1 + child[i].maxPathLength : i \in subs}),
      numFiles |-> Cardinality(files) + SumOver([i \in subs |-> child[i].numFiles], subs),
      totalFileSize |-> SumOver([i \in files |-> blobsInfo.info[es[i].oid]], files)
                        + SumOver([i \in subs |-> child[i].totalFileSize], subs),
      numSymlinks |-> Cardinality({i \in ix : IsLink(es[i])})
                      + SumOver([i \in subs |-> child[i].numSymlinks], subs),
      numSubmodules |-> Cardinality({i \in ix : IsSubmodule(es[i])})
                        + SumOver([i \in subs |-> child[i].numSubmodules], subs)]

\* the statistics the trees table holds for a tree
TableStats(oid) == treesInfo.info[oid].stats

\* the number of entries of tree t that sel selects
NumEntries(odb, t, sel(_)) == Len(SelectSeq(odb[t].entries, sel))

\* the identifiers of the entries of a sequence, in its order
EntryOids(es) == [i \in 1..Len(es) |-> es[i].oid]

\* the tables hold the tree, its sub-trees at every depth and the blobs of
\* their files
RECURSIVE InTables(_)
InTables(t) ==
  /\ t \in DOMAIN treesInfo.info
  /\ \A i \in 1..Len(repo.odb[t].entries) :
       LET te == repo.odb[t].entries[i]
       IN /\ IsFile(te) => te.oid \in DOMAIN blobsInfo.info
          /\ te.etype = "TREE" => InTables(te.oid)

\* C18: a blob entry with the filemode of a symbolic link is counted in
\* numSymlinks and nowhere else: the blob entries of a tree in the table are
\* its files alone, a tree holds in every field but numSymlinks what it would
\* hold without its links, before and after it was rolled up with the
\* statistics of its sub-trees, and the roll-up of
\* the commits fails only when a tree or the blob of a file is missing from
\* the tables, never for the blob of a link.
C18_SymlinkCountsOnlyAsSymlink ==
  /\ \A t \in DOMAIN treesInfo.info :
       LET tds == treesInfo.info[t]
           tree == repo.odb[t]
           plain == Without(tree, IsLink)
           own == thisTreeDataAndStats(tree, Len(tree.entries))
           bare == thisTreeDataAndStats(plain, Len(plain.entries))
       IN /\ tds.entryBlobs = EntryOids(SelectSeq(tree.entries, IsFile))
          /\ own = [bare EXCEPT !.stats.numSymlinks = NumEntries(repo.odb, t, IsLink)]
          /\ tds.statsDone =>
               tds.stats = [Level(plain.entries, TableStats) EXCEPT
                              !.numSymlinks = @ + NumEntries(repo.odb, t, IsLink)]
  /\ failedStep = "calculateBiggestCheckouts" =>
       \E c \in DOMAIN commitsInfo.info : ~InTables(RootOf(c))

\* a Report after the roll-up of a tree that holds a symbolic link whose blob
\* is not in the blobs table
C18_Witness ==
  /\ callback = "report"
  /\ m_statistics.biggestCheckouts.numSymlinks > 0
  /\ \E t \in DOMAIN treesInfo.info :
       /\ treesInfo.info[t].statsDone
       /\ \E i \in 1..Len(repo.odb[t].entries) :
            /\ IsLink(repo.odb[t].entries[i])
            /\ repo.odb[t].entries[i].oid \notin DOMAIN blobsInfo.info

\* the submodule entries of the trees in the trees table
SubmoduleEntries ==
  {te \in UNION {SeqRange(repo.odb[t].entries) : t \in DOMAIN treesInfo.info} :
     IsSubmodule(te)}

\* C19: a commit entry with the filemode of a submodule is counted in
\* numSubmodules and nowhere else: a tree holds, before and after the
\* roll-up, in every field but numSubmodules what it would hold without its
\* submodules, its sub-trees in the table are its tree entries alone, the
\* commit a submodule names is in the commits table and in the graph only if
\* it is an object of the repository itself, and the roll-up completes for
\* every commit whose trees and file blobs are in the tables.
C19_SubmoduleCountsOnlyAsSubmodule ==
  LET IsTree(te) == te.etype = "TREE"
  IN /\ \A t \in DOMAIN treesInfo.info :
          LET tds == treesInfo.info[t]
              tree == repo.odb[t]
              plain == Without(tree, IsSubmodule)
              own == thisTreeDataAndStats(tree, Len(tree.entries))
              bare == thisTreeDataAndStats(plain, Len(plain.entries))
          IN /\ [i \in 1..Len(tds.entryTreesNameLen) |-> tds.entryTreesNameLen[i][1]] =
                  EntryOids(SelectSeq(tree.entries, IsTree))
             /\ own = [bare EXCEPT !.stats.numSubmodules = NumEntries(repo.odb, t, IsSubmodule)]
             /\ tds.statsDone =>
                  tds.stats = [Level(plain.entries, TableStats) EXCEPT
                                 !.numSubmodules = @ + NumEntries(repo.odb, t, IsSubmodule)]
     /\ \A te \in SubmoduleEntries :
          te.oid \in DOMAIN commitsInfo.info \cup DOMAIN commitsInfo.graph.m_mapOidNode =>
            te.oid \in Oids(repo)
     /\ (apc \in {"MaxTagDepth", "MaxDepth", "References", "Done"}
         /\ failedStep # "calculateBiggestCheckouts") =>
          \A c \in DOMAIN commitsInfo.info :
            InTables(RootOf(c)) => treesInfo.info[RootOf(c)].statsDone

\* a Report after the roll-up of a tree with a submodule whose commit is
\* neither an object of the repository nor in the commits table
C19_Witness ==
  /\ callback = "report"
  /\ m_statistics.biggestCheckouts.numSubmodules > 0
  /\ \E te \in SubmoduleEntries :
       /\ te.oid \notin DOMAIN commitsInfo.info
       /\ te.oid \notin DOMAIN commitsInfo.graph.m_mapOidNode
  /\ \A c \in DOMAIN commitsInfo.info : treesInfo.info[RootOf(c)].statsDone

\* the trees of the repository that have no entry
EmptyTrees ==
  {t \in Oids(repo) : repo.odb[t].type = "TREE" /\ Len(repo.odb[t].entries) = 0}

\* C20: a tree without entries is never in the trees table, and an Execute
\* call for one, the first or a later one, returns with the table and the
\* totals of the trees (totalSize, totalEntries, maxEntries) as they were.
C20_EmptyTreeNotStored ==
  /\ [](\A t \in DOMAIN treesInfo.info : t \notin EmptyTrees)
  /\ [][\A t \in EmptyTrees : returned'[t] # returned[t] => treesInfo' = treesInfo]_vars

\* Shutdown has returned after every yield of a tree without entries was
\* executed, more than once, and the trees table is as it was constructed
C20_Witness ==
  /\ ShutdownReturned
  /\ \E t \in EmptyTrees : returned[t] = 1 + MaxDup /\ returned[t] > 1
  /\ treesInfo = InitTreesInfo

\* C21: once calculateTreeStatistics has succeeded for a tree, a later call
\* for it returns the tree with the table as it is, a call for any tree
\* leaves the statistics of every completed tree as they are, a call repeated
\* after a success returns the same result, and no step of the roll-up
\* changes a completed tree.
C21_RollUpIdempotent ==
  /\ [](\A t \in DOMAIN treesInfo.info :
          LET r == calculateTreeStatistics(treesInfo.info, blobsInfo.info, t)
          IN /\ treesInfo.info[t].statsDone => r = [info |-> treesInfo.info, found |-> TRUE]
             /\ \A u \in DOMAIN treesInfo.info :
                  treesInfo.info[u].statsDone => r.info[u] = treesInfo.info[u]
             /\ r.found => calculateTreeStatistics(r.info, blobsInfo.info, t) = r)
  /\ [][\A t \in DOMAIN treesInfo.info :
          treesInfo.info[t].statsDone => treesInfo'.info[t] = treesInfo.info[t]]_vars

\* a Report over two commits with different root trees that both hold the
\* same completed sub-tree with a file
C21_Witness ==
  /\ callback = "report"
  /\ \E c, d \in DOMAIN commitsInfo.info :
       /\ RootOf(c) # RootOf(d)
       /\ \E t \in DOMAIN treesInfo.info :
            /\ treesInfo.info[t].statsDone
            /\ treesInfo.info[t].stats.numFiles > 0
            /\ \E i \in 1..Len(treesInfo.info[RootOf(c)].entryTreesNameLen) :
                 treesInfo.info[RootOf(c)].entryTreesNameLen[i][1] = t
            /\ \E i \in 1..Len(treesInfo.info[RootOf(d)].entryTreesNameLen) :
                 treesInfo.info[RootOf(d)].entryTreesNameLen[i][1] = t

\* the positions of the queue that hold the SHUTDOWN_SIGNAL
SignalAt == {i \in 1..Len(m_workQueue) : m_workQueue[i].type = "SHUTDOWN_SIGNAL"}

\* C22: the SHUTDOWN_SIGNAL is the last entity of the queue from the step
\* that enqueues it: no step removes it or puts anything behind it, a worker
\* leaves on it only from GetWork with the signal at the front and the queue
\* left as it is, and a worker that has left on it stays there and takes no
\* work item.
C22_SignalStaysInQueue ==
  /\ [](SignalAt \subseteq {Len(m_workQueue)})
  /\ [][/\ SignalAt # {} => m_workQueue' # <<>> /\ SignalAt' = {Len(m_workQueue')}
                               /\ Len(m_workQueue') <= Len(m_workQueue)
        /\ \A w \in Workers :
             /\ wpc[w] = "ExitShutdown" =>
                  wpc'[w] = "ExitShutdown" /\ witem[w] = NoOid /\ witem'[w] = NoOid
             /\ (wpc'[w] = "ExitShutdown" /\ wpc[w] # "ExitShutdown") =>
                  /\ wpc[w] = "GetWork"
                  /\ Head(m_workQueue) = ShutdownSignal
                  /\ m_workQueue' = m_workQueue]_vars

\* a worker left on the SHUTDOWN_SIGNAL after work was executed while another
\* worker has yet to observe the signal, which is still in the queue
C22_Witness ==
  /\ m_workQueue = <<ShutdownSignal>>
  /\ \E w, v \in Workers : wpc[w] = "ExitShutdown" /\ wpc[v] = "InLock"
  /\ \E oid \in Oids(repo) : executed[oid] > 0

\* the workers inside the block of Execute that stores a commit
InCommitBlock ==
  {w \in Workers : wpc[w] = "InLock" /\ repo.odb[witem[w]].type = "COMMIT"}

\* C23: while the workers run, at most one worker is inside the block that
\* stores a commit, and it holds mutexCommits; the commits table and the graph
\* change only in a step of that worker, the graph changes only when the
\* worker's identifier enters the commits table, and no identifier leaves the
\* table, so AddNode runs at most once for an identifier.
C23_GraphUnderCommitsMutex ==
  /\ [](Cardinality(InCommitBlock) <= 1
        /\ \A w \in InCommitBlock : mutex["mutexCommits"] = w)
  /\ [][(Phase \in {1, 2}) =>
         (/\ DOMAIN commitsInfo.info \subseteq DOMAIN commitsInfo'.info
          /\ (commitsInfo' # commitsInfo) =>
               (\E w \in InCommitBlock :
                  /\ mutex["mutexCommits"] = w
                  /\ wpc'[w] # "InLock"
                  /\ witem[w] \notin DOMAIN commitsInfo.info
                  /\ DOMAIN commitsInfo'.info = DOMAIN commitsInfo.info \cup {witem[w]}
                  /\ commitsInfo'.graph # commitsInfo.graph)
          /\ (commitsInfo'.graph # commitsInfo.graph) =>
               (DOMAIN commitsInfo'.info # DOMAIN commitsInfo.info))]_vars

\* a worker is inside the block for a commit that is already in the table
\* while another worker waits to enter it for a commit
C23_Witness ==
  \E w, v \in Workers :
    /\ w \in InCommitBlock
    /\ witem[w] \in DOMAIN commitsInfo.info
    /\ wpc[v] = "Execute"
    /\ repo.odb[witem[v]].type = "COMMIT"
    /\ ~ExecuteFails(witem[v])

\* the commits AddNode was called for
Added == DOMAIN commitsInfo.info

\* how often node c is in the children of the nodes of the graph
TimesChild(c) ==
  LET nodes == commitsInfo.graph.m_mapOidNode
  IN SumOver([p \in DOMAIN nodes |-> Count(nodes[p].children, c)], DOMAIN nodes)

\* C24: before CalculateMaxDepth runs, after any number of AddNode calls in
\* any order, parentsLeft of every added commit is the number of parents it
\* declares and the number of times it is in the children of the nodes, also
\* when a child had created the node before; a node that was not added is a
\* placeholder with parentsLeft 0, and the roots are the added commits
\* without parents, each once.
C24_ParentsLeftIsParentCount ==
  apc \in {"Sequential", "Iterating", "Draining", "BiggestCheckouts", "MaxTagDepth", "MaxDepth"} =>
    LET nodes == commitsInfo.graph.m_mapOidNode
    IN /\ Added \subseteq DOMAIN nodes
       /\ \A c \in Added :
            /\ nodes[c].parentsLeft = Len(repo.odb[c].parents)
            /\ nodes[c].parentsLeft = TimesChild(c)
       /\ \A c \in DOMAIN nodes \ Added :
            nodes[c].parentsLeft = 0 /\ TimesChild(c) = 0 /\ nodes[c].children # <<>>
       /\ SeqRange(commitsInfo.graph.m_roots) =
            {c \in Added : Len(repo.odb[c].parents) = 0}
       /\ \A c \in Added : Count(commitsInfo.graph.m_roots, c) <= 1

\* a child of a commit that declares two parents was added before it, so
\* that its node is a placeholder, next to an added commit without parents
\* that has a child
C24_Witness ==
  /\ apc = "Sequential"
  /\ \E p \in DOMAIN commitsInfo.graph.m_mapOidNode \ Added :
       /\ Len(commitsInfo.graph.m_mapOidNode[p].children) = 1
       /\ Len(repo.odb[p].parents) = 2
  /\ \E r \in Added :
       /\ commitsInfo.graph.m_roots = <<r>>
       /\ commitsInfo.graph.m_mapOidNode[r].children # <<>>

\* C25: CalculateMaxDepth on the graph after any number of AddNode calls in
\* any order, placeholders of commits not added included: no node is in the
\* set of two iterations, a node with parents is in the set of the iteration
\* directly after the last one that held a parent of it and only when all
\* its parents were held, parentsLeft ends as the parent count less the
\* number of child entries of the nodes that were held, and is never below 0.
C25_FrontierOncePerNode ==
  apc \in {"Sequential", "MaxDepth"} =>
    LET g == commitsInfo.graph
        nodes == g.m_mapOidNode
        fr == Frontiers(g)
        levels == fr.levels
        held == UNION SeqRange(levels)
        LevelOf(c) == CHOOSE k \in 1..Len(levels) : c \in levels[k]
        parentsOf(c) == {p \in DOMAIN nodes : Count(nodes[p].children, c) > 0}
    IN /\ CalculateMaxDepth(g) = [nodes |-> fr.nodes, maxDepth |-> Len(levels)]
       /\ \A i, j \in 1..Len(levels) : i # j => levels[i] \cap levels[j] = {}
       /\ \A c \in DOMAIN nodes :
            /\ fr.nodes[c].parentsLeft >= 0
            /\ fr.nodes[c].parentsLeft =
                 nodes[c].parentsLeft
                 - SumOver([p \in held |-> Count(nodes[p].children, c)], held)
            /\ (c \in held /\ parentsOf(c) # {}) =>
                 /\ parentsOf(c) \subseteq held
                 /\ LevelOf(c) = 1 + MaxOf({LevelOf(p) : p \in parentsOf(c)})
            /\ (c \in Added /\ parentsOf(c) # {} /\ parentsOf(c) \subseteq held) => c \in held
            /\ (c \in held /\ parentsOf(c) = {}) => LevelOf(c) = 1

\* the graph of a commit with three parents on paths of different lengths,
\* held in the fourth iteration only
C25_Witness ==
  /\ apc = "MaxDepth"
  /\ \E c \in Added :
       /\ Len(repo.odb[c].parents) = 3
       /\ Len(Frontiers(commitsInfo.graph).levels) = 4
       /\ c \in Frontiers(commitsInfo.graph).levels[4]

\* commit c reaches itself along declared parents
RECURSIVE Ancestors(_, _)
Ancestors(seen, front) ==
  LET more == UNION {SeqRange(repo.odb[c].parents) : c \in front} \ seen
  IN IF more = {} THEN seen ELSE Ancestors(seen \cup more, more)

OnCycle(c) == c \in Ancestors({}, {c})

\* C26: on the graph after any number of AddNode calls in any order, for
\* parent relations with cycles and with parents that were not added, the
\* while loop of CalculateMaxDepth has ended after as many iterations as the
\* graph has nodes, one per node at most, and what it returns is not greater
\* than the number of nodes.
C26_MaxDepthTerminates ==
  LET nodes == commitsInfo.graph.m_mapOidNode
      n == Cardinality(DOMAIN nodes)
  IN /\ apc \in {"Sequential", "MaxDepth"} =>
          LET r == LoopWithin(nodes, SeqRange(commitsInfo.graph.m_roots), 0, n)
          IN r.children = {} /\ r.maxDepth <= n
     /\ apc = "References" => m_statistics.historyStructure.maxDepth <= n

\* CalculateMaxDepth has returned 1 for a graph in which every commit was
\* added and two commits are each other's parent, one of them a child of the
\* parentless commit as well
C26_Witness ==
  /\ apc = "References"
  /\ m_statistics.historyStructure.maxDepth = 1
  /\ Cardinality(Added) = MaxCommits - 1
  /\ \E c, d \in Added :
       /\ c # d
       /\ OnCycle(c)
       /\ d \in SeqRange(repo.odb[c].parents)
       /\ c \in SeqRange(repo.odb[d].parents)
       /\ \E r \in SeqRange(commitsInfo.graph.m_roots) : r \in SeqRange(repo.odb[c].parents)

\* calculateMaxTagDepth has returned GIT_OK
MaxTagDepthSucceeded ==
  apc \in {"MaxDepth", "References", "Callback", "Done"} /\ failedStep # "calculateMaxTagDepth"

\* C27: after calculateMaxTagDepth has returned GIT_OK every tag of the tags
\* table has a depth of at least 1, which is 1 + the depth of its target when
\* the target is a tag and 1 otherwise; a depth that is set is never changed
\* by a later step, and calculateTagDepth for a tag whose depth is set
\* returns the tag with the table as it is.
C27_TagDepthSetOnce ==
  /\ [](MaxTagDepthSucceeded =>
          \A t \in DOMAIN tagsInfo.info :
            LET tagData == tagsInfo.info[t]
            IN /\ tagData.depth >= 1
               /\ tagData.depth =
                    IF tagData.typeTarget = "TAG"
                      THEN 1 + tagsInfo.info[tagData.oidTarget].depth
                      ELSE 1)
  /\ [](\A t \in DOMAIN tagsInfo.info :
          tagsInfo.info[t].depth # kUnsetDepth =>
            calculateTagDepth(tagsInfo.info, t) = [info |-> tagsInfo.info, found |-> TRUE])
  /\ [][\A t \in DOMAIN tagsInfo.info :
          tagsInfo.info[t].depth # kUnsetDepth => tagsInfo'.info[t] = tagsInfo.info[t]]_vars

\* calculateMaxTagDepth has returned GIT_OK for two tags of depth 2 that
\* point at the same tag of depth 1
C27_Witness ==
  /\ MaxTagDepthSucceeded
  /\ \E t, u \in DOMAIN tagsInfo.info :
       /\ t # u
       /\ tagsInfo.info[t].typeTarget = "TAG"
       /\ tagsInfo.info[t].oidTarget = tagsInfo.info[u].oidTarget
       /\ tagsInfo.info[u].typeTarget = "TAG"
       /\ tagsInfo.info[t].depth = 2
       /\ tagsInfo.info[u].depth = 2
       /\ tagsInfo.info[tagsInfo.info[t].oidTarget].depth = 1

\* the tags table holds every tag of the chain that starts at tag t
RECURSIVE ChainInTable(_)
ChainInTable(t) ==
  /\ t \in DOMAIN tagsInfo.info
  /\ tagsInfo.info[t].typeTarget = "TAG" => ChainInTable(tagsInfo.info[t].oidTarget)

\* as long as no call has failed, calculateTagDepth finds every tag it needs
\* exactly when the chain of the tag is in the tags table (a target that is
\* no tag is not looked up);
\* calculateMaxTagDepth fails exactly when the chain of a tag is not, and
\* then CalculateMaxDepth and analyzeReferences do not run
TagChainErrorPropagates ==
  /\ failedStep = "none" =>
       \A t \in DOMAIN tagsInfo.info :
         calculateTagDepth(tagsInfo.info, t).found <=> ChainInTable(t)
  /\ apc \in {"MaxDepth", "References", "Callback", "Done"} =>
       (failedStep = "calculateMaxTagDepth" <=> \E t \in DOMAIN tagsInfo.info : ~ChainInTable(t))
  /\ failedStep = "calculateMaxTagDepth" =>
       /\ apc \in {"Callback", "Done"}
       /\ baton.error_code # 0
       /\ m_statistics.historyStructure.maxDepth = 0
       /\ callback # "report"

\* C28: a tag whose target is a tag that is not in the tags table makes
\* calculateTagDepth fail for every tag of the chain and calculateMaxTagDepth
\* return an error, no later stage runs, and the run fails: its caller
\* receives the error; a target that is no tag is never looked up.
C28_MissingTagFailsRun ==
  /\ TagChainErrorPropagates
  /\ (apc = "Done" /\ failedStep = "calculateMaxTagDepth") => callback = "error"

\* C29: calculateTreeStatistics fails for a tree exactly when the tree, one
\* of its sub-trees at any depth or the blob of a file of one of them is not
\* in the tables; calculateBiggestCheckouts fails exactly when that is so
\* for the root tree of a commit, and then analyzeObjects returns the error
\* with neither the depth of a tag nor the depth of the history calculated.
C29_MissingObjectStopsAggregation ==
  /\ \A t \in DOMAIN treesInfo.info \cup {RootOf(c) : c \in DOMAIN commitsInfo.info} :
       calculateTreeStatistics(treesInfo.info, blobsInfo.info, t).found <=> InTables(t)
  /\ apc \in {"MaxTagDepth", "MaxDepth", "References", "Callback", "Done"} =>
       (failedStep = "calculateBiggestCheckouts" <=>
          \E c \in DOMAIN commitsInfo.info : ~InTables(RootOf(c)))
  /\ failedStep = "calculateBiggestCheckouts" =>
       /\ apc \in {"Callback", "Done"}
       /\ baton.error_code # 0
       /\ callback # "report"
       /\ \A t \in DOMAIN tagsInfo.info : tagsInfo.info[t].depth = kUnsetDepth
       /\ m_statistics.historyStructure.maxTagDepth = 0
       /\ m_statistics.historyStructure.maxDepth = 0
       /\ \A c \in Added :
            commitsInfo.graph.m_mapOidNode[c].parentsLeft = Len(repo.odb[c].parents)

\* the roll-up of one commit succeeded and that of the other failed below
\* its root tree, which is in the table with the blobs of its own files, with
\* a tag in the tags table and two commits in the graph
C29_Witness ==
  /\ apc = "Done"
  /\ failedStep = "calculateBiggestCheckouts"
  /\ DOMAIN tagsInfo.info # {}
  /\ Cardinality(DOMAIN commitsInfo.info) = 2
  /\ \E c, d \in DOMAIN commitsInfo.info :
       /\ RootOf(c) \in DOMAIN treesInfo.info
       /\ treesInfo.info[RootOf(c)].statsDone
       /\ RootOf(d) \in DOMAIN treesInfo.info
       /\ ~treesInfo.info[RootOf(d)].statsDone
       /\ \A i \in 1..Len(treesInfo.info[RootOf(d)].entryBlobs) :
            treesInfo.info[RootOf(d)].entryBlobs[i] \in DOMAIN blobsInfo.info


\* ------------------------------------------------------------------------
\* WorkerPool used on its own: Init, InsertWork and Shutdown in any order
\* ------------------------------------------------------------------------
\* WorkerPool::Init: the value it returns, m_init after it, and whether it
\* has started the threads
PoolInit(init) ==
  IF init THEN [ret |-> FALSE, m_init |-> init, started |-> FALSE]
  ELSE [ret |-> TRUE, m_init |-> TRUE, started |-> TRUE]

\* InsertWork without the test of m_init
PoolInsertWorkUnguarded(init, queue, item) ==
  [ret |-> TRUE, queue |-> InsertWork(queue, item)]

\* WorkerPool::InsertWork: the value it returns and the queue after it
PoolInsertWork(init, queue, item) ==
  IF ~init THEN [ret |-> FALSE, queue |-> queue]
  ELSE [ret |-> TRUE, queue |-> InsertWork(queue, item)]

\* forEachOdbCb: GIT_EUSER when InsertWork returned false
forEachOdbCb(init, queue, oid) ==
  LET inserted == PoolInsertWork(init, queue, WorkItem(oid))
  IN [ret |-> IF ~inserted.ret THEN GIT_EUSER ELSE GIT_OK, queue |-> inserted.queue]

\* SHUTDOWN_SIGNALs in the queue
Signals == {i \in 1..Len(m_workQueue) : m_workQueue[i].type = "SHUTDOWN_SIGNAL"}

\* a call of Init; baton.out keeps the value it returned
ClientInit ==
  /\ apc = "Client"
  /\ LET r == PoolInit(m_init)
     IN /\ m_init' = r.m_init
        /\ wpc' = IF r.started THEN [w \in Workers |-> "Initialize"] ELSE wpc
        /\ baton' = [baton EXCEPT !.out = r.ret]
  /\ UNCHANGED <<hostVars, trackerVars, repo, foreachLeft, m_workQueue, witem, joined, mutex, infoVars,
                 m_statistics, apc, loopLeft, callback, failedStep, executed, returned>>

\* git_odb_foreach calls forEachOdbCb for oid; baton.error_code keeps the
\* value the callback returned, and a value other than GIT_OK ends the
\* iteration
ClientForEachOdbCb(oid) ==
  /\ apc = "Client"
  /\ foreachLeft[oid] > 0
  /\ LET r == forEachOdbCb(m_init, m_workQueue, oid)
     IN /\ m_workQueue' = r.queue
        /\ baton' = [baton EXCEPT !.error_code = r.ret]
        /\ IF r.ret = GIT_OK
           THEN foreachLeft' = [foreachLeft EXCEPT ![oid] = @ - 1] /\ UNCHANGED failedStep
           ELSE foreachLeft' = [o \in Oids(repo) |-> 0] /\ failedStep' = "git_odb_foreach"
  /\ UNCHANGED <<hostVars, trackerVars, repo, m_init, wpc, witem, joined, mutex, infoVars, m_statistics,
                 apc, loopLeft, callback, executed, returned>>

\* a call of Shutdown emplaces the SHUTDOWN_SIGNAL, whatever m_init is
ClientShutdown ==
  /\ apc = "Client"
  /\ Cardinality(Signals) <= MaxDup
  /\ m_workQueue' = Append(m_workQueue, ShutdownSignal)
  /\ apc' = "ClientDraining"
  /\ UNCHANGED <<hostVars, trackerVars, repo, foreachLeft, m_init, wpc, witem, joined, mutex, infoVars,
                 m_statistics, loopLeft, baton, callback, failedStep, executed, returned>>

\* every joinable thread has been joined; Shutdown returns
ClientShutdownReturn ==
  /\ apc = "ClientDraining"
  /\ \A w \in Workers : wpc[w] \in Exited \cup {"none"}
  /\ m_init' = FALSE
  /\ apc' = "Client"
  /\ UNCHANGED <<hostVars, trackerVars, repo, foreachLeft, m_workQueue, wpc, witem, joined, mutex, infoVars,
                 m_statistics, loopLeft, baton, callback, failedStep, executed, returned>>

InitPool ==
  InitAt([odb |-> OneFile.odb, refs |-> OneFile.refs,
          copies |-> [o \in Oids(OneFile) |-> 1], fails |-> NoFailures], "Client")

NextPool ==
  \/ \E w \in Workers : WorkerInitialize(w)
  \/ \E w \in Workers : GetWork(w)
  \/ \E w \in Workers : ExecuteLock(w)
  \/ \E w \in Workers : ExecuteStore(w)
  \/ ClientInit
  \/ \E oid \in Oids(repo) : ClientForEachOdbCb(oid)
  \/ ClientShutdown
  \/ ClientShutdownReturn

SpecPool == InitPool /\ [][NextPool]_vars

\* C30: Init returns true, sets m_init and starts every worker thread when
\* the pool is not initialised, and returns false and starts nothing when it
\* is; Shutdown leaves the pool not initialised; a forEachOdbCb whose
\* InsertWork finds the pool initialised queues one work item behind the
\* others and returns GIT_OK, and one that finds it not initialised, before
\* Init or after Shutdown, leaves the queue as it is and returns GIT_EUSER,
\* and no identifier is yielded after it
C30_InitAndInsertWorkGuarded ==
  [][/\ ClientInit =>
          /\ baton'.out = ~m_init
          /\ m_init'
          /\ IF m_init THEN wpc' = wpc
             ELSE \A w \in Workers : wpc'[w] = "Initialize"
     /\ ClientShutdownReturn => ~m_init'
     /\ \A oid \in Oids(repo) :
          ClientForEachOdbCb(oid) =>
            IF m_init
            THEN /\ m_workQueue' = Append(m_workQueue, WorkItem(oid))
                 /\ baton'.error_code = GIT_OK
                 /\ foreachLeft'[oid] = foreachLeft[oid] - 1
            ELSE /\ m_workQueue' = m_workQueue
                 /\ baton'.error_code = GIT_EUSER
                 /\ \A o \in Oids(repo) : foreachLeft'[o] = 0]_vars

\* after a Shutdown, with its SHUTDOWN_SIGNAL behind a work item that was
\* queued while the pool was initialised, a second Init has returned false
\* and an InsertWork on the pool that is not initialised has made the
\* callback return GIT_EUSER
C30_Witness ==
  /\ apc = "Client"
  /\ ~m_init
  /\ Signals # {}
  /\ \E i \in 1..Len(m_workQueue) : m_workQueue[i].type = "WORKITEM"
  /\ baton.out = FALSE
  /\ baton.error_code = GIT_EUSER
  /\ failedStep = "git_odb_foreach"


\* a path of declared parents leads from c to a commit without parents over
\* commits of which every declared parent is in the object database
RECURSIVE Unblocked(_)
Unblocked(c) ==
  /\ c \in DOMAIN repo.odb
  /\ LET ps == SeqRange(repo.odb[c].parents)
     IN /\ ps \subseteq DOMAIN repo.odb
        /\ ps = {} \/ \E p \in ps : Unblocked(p)

\* C31: on the graph after any number of AddNode calls in any order, for
\* histories of which one commit is not in the object database: a node that
\* only addParentNode created is not among the roots, is in no children list
\* and is in the set of no iteration of CalculateMaxDepth; once every commit
\* of the database was added, a commit that declares a parent that is not in
\* the database, and a commit that reaches a parentless commit only over
\* such commits, is in the set of no iteration; and after CalculateMaxDepth
\* has run, parentsLeft of such a commit is still above 0 and that of a
\* placeholder is still 0.
C31_PlaceholderNeverVisited ==
  LET g == commitsInfo.graph
      nodes == g.m_mapOidNode
      placeholders == DOMAIN nodes \ Added
  IN /\ apc \in {"Sequential", "MaxDepth"} =>
          LET held == UNION SeqRange(Frontiers(g).levels)
          IN /\ \A p \in placeholders :
                  /\ p \notin SeqRange(g.m_roots)
                  /\ TimesChild(p) = 0
                  /\ p \notin held
             /\ \A c \in Added :
                  (SeqRange(repo.odb[c].parents) \cap placeholders # {}) => c \notin held
             /\ apc = "MaxDepth" =>
                  /\ placeholders = {p \in DOMAIN nodes : p \notin DOMAIN repo.odb}
                  /\ \A c \in Added : ~Unblocked(c) => c \notin held
     /\ apc = "References" =>
          /\ \A p \in placeholders : nodes[p].parentsLeft = 0
          /\ \A c \in Added : ~Unblocked(c) => nodes[c].parentsLeft > 0

\* CalculateMaxDepth has returned 1 for k1, k3(k1, k2), k4(k3) without k2 in
\* the object database: k3 has one parent left, and k4, whose only parent
\* is k3, has its one parent left
C31_Witness ==
  /\ apc = "References"
  /\ "k2" \notin DOMAIN repo.odb
  /\ "k2" \in DOMAIN commitsInfo.graph.m_mapOidNode
  /\ repo.odb["k3"].parents = <<"k1", "k2">>
  /\ repo.odb["k4"].parents = <<"k3">>
  /\ commitsInfo.graph.m_mapOidNode["k3"].parentsLeft = 1
  /\ commitsInfo.graph.m_mapOidNode["k4"].parentsLeft = 1
  /\ m_statistics.historyStructure.maxDepth = 1


\* C32: statsDone of a tree in the table is set exactly when the statistics
\* hold the complete roll-up: the blobs of its files are in the table, its
\* sub-trees are in the table with statsDone set, and its statistics are its
\* own counts with the statistics of its sub-trees added (so, level by
\* level, those of everything below it); a tree whose roll-up met a missing
\* blob or sub-tree has statsDone unset whatever its statistics hold, and a
\* tree whose statsDone is unset does not hold the complete roll-up.
C32_StatsDoneIffComplete ==
  \A t \in DOMAIN treesInfo.info :
    LET es == repo.odb[t].entries
        ix == 1..Len(es)
    IN /\ treesInfo.info[t].statsDone <=>
            /\ \A i \in ix : IsFile(es[i]) => es[i].oid \in DOMAIN blobsInfo.info
            /\ \A i \in ix : es[i].etype = "TREE" =>
                 es[i].oid \in DOMAIN treesInfo.info /\ treesInfo.info[es[i].oid].statsDone
            /\ TableStats(t) = Level(es, TableStats)
       /\ treesInfo.info[t].statsDone => InTables(t)
       /\ (failedStep = "calculateBiggestCheckouts" /\ ~InTables(t)) =>
            ~treesInfo.info[t].statsDone

\* calculateBiggestCheckouts has failed on a root tree that holds a file
\* with its blob in the table and a sub-tree it could not roll up: the root
\* has statsDone unset, numDirectories and maxPathDepth 1 and the size of
\* the file in totalFileSize, next to a tree that was completed
C32_Witness ==
  /\ failedStep = "calculateBiggestCheckouts"
  /\ \E t, u \in DOMAIN treesInfo.info :
       /\ ~treesInfo.info[t].statsDone
       /\ treesInfo.info[t].entryTreesNameLen # <<>>
       /\ TableStats(t).numDirectories = 1
       /\ TableStats(t).maxPathDepth = 1
       /\ TableStats(t).totalFileSize > 0
       /\ treesInfo.info[u].statsDone


\* Shutdown has returned and every worker thread left DoWork at the
\* SHUTDOWN_SIGNAL (none after a failed Initialize or Execute)
CycleEnded == apc = "Client" /\ ~m_init /\ \A w \in Workers : wpc[w] = "ExitShutdown"

\* C33: whenever a Shutdown has returned with every worker thread gone at
\* the SHUTDOWN_SIGNAL, in the first cycle of Init, InsertWork and Shutdown
\* and in every later one, no work item that InsertWork accepted is left in
\* the queue: all of them were executed.
C33_PoolReusable ==
  CycleEnded => \A i \in 1..Len(m_workQueue) : m_workQueue[i].type # "WORKITEM"

\* the same for the first cycle alone, which holds
FirstCycleExecutesAll ==
  (CycleEnded /\ Cardinality(Signals) = 1) =>
    \A i \in 1..Len(m_workQueue) : m_workQueue[i].type # "WORKITEM"


\* ------------------------------------------------------------------------
\* TrackerWrap: the list of the wrapper objects of a context
\* ------------------------------------------------------------------------
\* Link without the back pointer of the node that was first
LinkNoBackPointer(next, prev, this, start) ==
  [m_next |-> [next EXCEPT ![this] = next[start], ![start] = this],
   m_prev |-> [prev EXCEPT ![this] = start]]

\* TrackerWrap::Link: links this right after start
Link(next, prev, this, start) ==
  LET p1 == [prev EXCEPT ![this] = start]
      n1 == [next EXCEPT ![this] = next[start]]
      p2 == IF n1[this] # nullptr THEN [p1 EXCEPT ![n1[this]] = this] ELSE p1
  IN [m_next |-> [n1 EXCEPT ![start] = this], m_prev |-> p2]

\* TrackerWrap::Unlink
Unlink(next, prev, this) ==
  LET n1 == IF prev[this] # nullptr THEN [next EXCEPT ![prev[this]] = next[this]] ELSE next
      p1 == IF n1[this] # nullptr THEN [prev EXCEPT ![n1[this]] = prev[this]] ELSE prev
  IN [m_next |-> [n1 EXCEPT ![this] = nullptr], m_prev |-> [p1 EXCEPT ![this] = nullptr]]

\* the function without the key
Erase(f, key) == [k \in DOMAIN f \ {key} |-> f[k]]

\* the objects that were constructed and not destroyed
Live == DOMAIN m_owners

\* m_owners: the null pointer, or a vector of owners (what the code does
\* with the vector does not depend on the order of its elements)
NoOwners == [null |-> TRUE, owners |-> {}]
OwnersVector(S) == [null |-> FALSE, owners |-> S]

\* the owners an object can be given: none (m_owners stays null), or live
\* objects, which the object keeps from being destroyed before it
OwnerChoices == {NoOwners} \cup {OwnersVector(S) : S \in SUBSET Live \ {{}}}

\* a wrapper object is constructed: it is linked after the head of the list
\* and told its owners
Create(w, owners) ==
  /\ tpc = "Tracking"
  /\ w \notin Live
  /\ LET l == Link(m_next @@ (w :> nullptr), m_prev @@ (w :> nullptr), w, listStart)
     IN m_next' = l.m_next /\ m_prev' = l.m_prev
  /\ m_owners' = m_owners @@ (w :> owners)
  /\ UNCHANGED <<analysisVars, hostVars, freed, tpc>>

\* a wrapper object that owns no live object is destroyed: it unlinks itself
Destroy(w) ==
  /\ tpc = "Tracking"
  /\ w \in Live
  /\ \A o \in Live : w \notin m_owners[o].owners
  /\ LET u == Unlink(m_next, m_prev, w)
     IN m_next' = Erase(u.m_next, w) /\ m_prev' = Erase(u.m_prev, w)
  /\ m_owners' = Erase(m_owners, w)
  /\ UNCHANGED <<analysisVars, hostVars, freed, tpc>>

\* the nodes from n on along m_next, at most fuel of them
RECURSIVE ListFrom(_, _, _)
ListFrom(next, n, fuel) ==
  IF n = nullptr \/ n \notin DOMAIN next \/ fuel = 0 THEN <<>>
  ELSE <<n>> \o ListFrom(next, next[n], fuel - 1)

\* the nodes that are reached from the head of the list
TrackedList == ListFrom(m_next, m_next[listStart], MaxWraps + 1)

\* ------------------------------------------------------------------------
\* TrackerWrapTrees: what DeleteAll builds from the list and how it frees it
\* ------------------------------------------------------------------------
TrackerWrapTreeNode == [m_parents |-> {}, m_children |-> {}]

EmptyTrackerWrapTrees == [m_mapTrackerWrapNode |-> [w \in {} |-> TrackerWrapTreeNode], m_roots |-> <<>>]

\* emplace of a node for the owner (no effect when present), AddChild
TreesAddParentNode(nodes, owner, child) ==
  LET emplaced == IF owner \in DOMAIN nodes THEN nodes
                  ELSE nodes @@ (owner :> TrackerWrapTreeNode)
  IN [emplaced EXCEPT ![owner].m_children = @ \cup {child}]

RECURSIVE TreesAddOwners(_, _, _)
TreesAddOwners(nodes, owners, child) ==
  IF owners = {} THEN nodes
  ELSE LET o == CHOOSE x \in owners : TRUE
           added == TreesAddParentNode(nodes, o, child)
       IN TreesAddOwners([added EXCEPT ![child].m_parents = @ \cup {o}],
                         owners \ {o}, child)

\* TrackerWrapTrees::addNode for an object and the owners it holds
TreesAddNode(trees, trackerWrap, owners) ==
  LET emplaced == IF trackerWrap \in DOMAIN trees.m_mapTrackerWrapNode
                    THEN trees.m_mapTrackerWrapNode
                    ELSE trees.m_mapTrackerWrapNode @@ (trackerWrap :> TrackerWrapTreeNode)
  IN IF owners.null
       THEN [m_mapTrackerWrapNode |-> emplaced,
             m_roots |-> Append(trees.m_roots, trackerWrap)]
       ELSE [m_mapTrackerWrapNode |-> TreesAddOwners(emplaced, owners.owners, trackerWrap),
             m_roots |-> trees.m_roots]

\* the constructor: every item is unlinked from the list, first item first,
\* and added as a node
RECURSIVE TreesFromList(_, _, _, _)
TreesFromList(trees, list, owners, i) ==
  IF i > Len(list) THEN trees
  ELSE TreesFromList(TreesAddNode(trees, list[i], owners[list[i]]), list, owners, i + 1)

\* RemoveFromParents, then the erase from the container, which frees the
\* node and deletes the object it holds
EraseNode(s, node) ==
  [s EXCEPT
     !.nodes = Erase([p \in DOMAIN s.nodes |->
                        IF p \in s.nodes[node].m_parents
                          THEN [s.nodes[p] EXCEPT !.m_children = @ \ {node}]
                          ELSE s.nodes[p]], node),
     !.freed = Append(@, node)]

\* deleteTree: the states it can end in. The range-for loop over
\* node->Children() calls deleteTree(child), and a child that is deleted
\* erases itself from that same set (RemoveFromParents): the iterator of the
\* loop then points to an erased element and advancing it is undefined. The
\* loop then goes on with the children that are left, or ends, or the
\* process ends.
RECURSIVE deleteTree(_, _)
RECURSIVE ChildrenLoop(_, _, _)
deleteTree(s, node) ==
  {IF s2.crashed \/ s2.nodes[node].m_children # {} THEN s2 ELSE EraseNode(s2, node) :
     s2 \in ChildrenLoop(s, node, s.nodes[node].m_children)}

ChildrenLoop(s, node, todo) ==
  IF todo = {} \/ s.crashed THEN {s}
  ELSE UNION {
         UNION {
           LET left == (todo \ {child}) \cap s1.nodes[node].m_children
           IN IF s1.crashed THEN {s1}
              ELSE IF child \in s1.nodes[node].m_children
                THEN ChildrenLoop(s1, node, left)
                ELSE ChildrenLoop(s1, node, left) \cup {s1, [s1 EXCEPT !.crashed = TRUE]}
           : s1 \in deleteTree(s, child)}
         : child \in todo}

\* freeAllTreesChildrenFirst: deleteTree for every root, in vector order
RECURSIVE freeAllTreesChildrenFirst(_, _, _)
freeAllTreesChildrenFirst(S, roots, i) ==
  IF i > Len(roots) THEN S
  ELSE freeAllTreesChildrenFirst(
         UNION {IF s.crashed THEN {s} ELSE deleteTree(s, roots[i]) : s \in S}, roots, i + 1)

\* the destructor of m_mapTrackerWrapNode destroys the nodes that are left,
\* in an order the container chooses; the destructor of a node with children
\* fails its assert, which ends the process where asserts are compiled in
RECURSIVE DestroyMap(_)
DestroyMap(s) ==
  IF s.crashed \/ DOMAIN s.nodes = {} THEN {s}
  ELSE UNION {
         LET gone == [s EXCEPT !.nodes = Erase(@, n), !.freed = Append(@, n)]
         IN IF s.nodes[n].m_children # {}
              THEN DestroyMap(gone) \cup {[s EXCEPT !.crashed = TRUE]}
              ELSE DestroyMap(gone)
         : n \in DOMAIN s.nodes}

\* the states DeleteAll can end in for the list and the owners
DeleteAllOutcomes(list, owners) ==
  LET trees == TreesFromList(EmptyTrackerWrapTrees, list, owners, 1)
      start == [nodes |-> trees.m_mapTrackerWrapNode, freed |-> <<>>, crashed |-> FALSE]
  IN UNION {DestroyMap(s) : s \in freeAllTreesChildrenFirst({start}, trees.m_roots, 1)}

\* TrackerWrap::DeleteAll when the context closes
DeleteAll ==
  /\ tpc = "Tracking"
  /\ \E out \in DeleteAllOutcomes(TrackedList, m_owners) :
       LET kept == {listStart} \cup (Live \ SeqRange(out.freed))
       IN /\ freed' = out.freed
          /\ tpc' = IF out.crashed THEN "Crashed" ELSE "Closed"
          /\ m_next' = [n \in kept |-> nullptr]
          /\ m_prev' = [n \in kept |-> nullptr]
          /\ m_owners' = [n \in kept \ {listStart} |-> m_owners[n]]
  /\ UNCHANGED <<analysisVars, hostVars>>

InitTrackerRun ==
  InitAt([odb |-> EmptyRepository.odb, refs |-> EmptyRepository.refs,
          copies |-> EmptyMap, fails |-> NoFailures], "Idle")

NextTracker ==
  \/ \E w \in Wraps : \E owners \in OwnerChoices : Create(w, owners)
  \/ \E w \in Wraps : Destroy(w)
  \/ DeleteAll

SpecTracker == InitTrackerRun /\ [][NextTracker]_vars

\* C34: after any sequence of constructions and destructions of wrapper
\* objects, the nodes reached from the head of the list are the live objects,
\* each once, so that their number is the number of objects constructed and
\* not destroyed; the head has no predecessor, m_prev of the successor of
\* every node of the list (the head included) is that node, no pointer of the
\* list is left to a destroyed object; and a destruction takes the
\* object out of the list and leaves the other nodes in it, in their order.
C34_ListHoldsLiveObjects ==
  /\ [](tpc = "Tracking" =>
          /\ Len(TrackedList) = Cardinality(Live)
          /\ SeqRange(TrackedList) = Live
          /\ m_prev[listStart] = nullptr
          /\ \A n \in DOMAIN m_next :
               /\ m_next[n] \in DOMAIN m_next \cup {nullptr}
               /\ m_prev[n] \in DOMAIN m_prev \cup {nullptr}
               /\ m_next[n] # nullptr => m_prev[m_next[n]] = n)
  /\ [][\A w \in Wraps :
          Destroy(w) =>
            ListFrom(m_next', m_next'[listStart], MaxWraps + 1) =
              SelectSeq(TrackedList, LAMBDA n : n # w)]_vars

\* two live objects of three names are linked to each other and to the head,
\* as after w1, w2, w3 were constructed and w2 was destroyed
C34_Witness ==
  /\ tpc = "Tracking"
  /\ Cardinality(Live) = 2
  /\ TrackedList = <<"w3", "w1">>
  /\ m_prev["w1"] = "w3"
  /\ m_prev["w3"] = listStart


\* the place of an object in the order of the deletes (0 when not deleted)
FreedAt(order, w) ==
  IF \E i \in 1..Len(order) : order[i] = w
    THEN CHOOSE i \in 1..Len(order) : order[i] = w
    ELSE 0

\* C35: when DeleteAll has run, the list is empty, every object that was in
\* it was deleted exactly once, and every object was deleted before each of
\* its owners, whatever the number of owners of an object and of objects of
\* an owner.
C35_DeleteAllChildrenFirst ==
  [][DeleteAll =>
       /\ m_next'[listStart] = nullptr
       /\ Len(freed') = Cardinality(Live)
       /\ SeqRange(freed') = Live
       /\ \A w \in Live : \A o \in m_owners[w].owners :
            FreedAt(freed', w) < FreedAt(freed', o)]_vars

\* ------------------------------------------------------------------------
\* GitLFS: LFS.initialize runs "git lfs install" in the working directory
\* ------------------------------------------------------------------------
EXIT_SUCCESS == 0

\* what pclose can return: the wait status of a command that exited with 0,
\* of one that exited with 1, and -1 when pclose itself fails
ExitStatuses == {EXIT_SUCCESS, 256, 0 - 1}

\* git_repository_workdir(baton->repo) of the repositories of the callers
Workdirs == {"/repos/lfsRepo/", "/repos/other/"}

\* what one fgets can append to cmd->out: with 2>&1 the lines of the
\* standard error of the command come through the pipe as well
OutputLines == {"stdout", "stderr"}

\* LfsCmdOptsInitialize::BuildArgs
BuildArgs(opts) == IF opts.local THEN " --local" ELSE ""

\* LfsCmd::Command for Type::kInitialize
LfsCommand == "git lfs" \o " install"

\* the command line exec hands to popen
FinalCmd(cmd) ==
  LET cwd == cmd.m_env
      cmdCwd == IF cwd = "" THEN "" ELSE "cd " \o cwd \o " && "
      cmdArgs == BuildArgs(cmd.m_opts)
      finalCmdArgs == IF cmdArgs = "" THEN "" ELSE " " \o cmdArgs
      cmdRedirectErr == IF cmd.m_redirectStdErr THEN " 2>&1" ELSE ""
  IN cmdCwd \o LfsCommand \o finalCmdArgs \o cmdRedirectErr

\* GitLFS::Initialize: the baton, the command and the worker that is queued
LfsInitialize(local, workdir) ==
  /\ lfs.pc = "Idle"
  /\ lfs' = [pc |-> "Queued",
             workdir |-> workdir,
             baton |-> [error_code |-> GIT_OK, error |-> FALSE],
             cmd |-> [m_opts |-> [local |-> local], m_env |-> "", m_redirectStdErr |-> TRUE,
                      out |-> <<>>, errorMsg |-> ""],
             callback |-> "pending"]
  /\ UNCHANGED <<analysisVars, trackerVars, hardware>>

\* InitializeWorker::Execute from the return of exec on: result is a local
\* variable that is set to GIT_EUSER when exec returned false and is not
\* stored in baton->error_code; git_error_last() is NULL, Execute has cleared
\* it and no libgit2 call has failed since
ExecuteReturn(l, execReturned) ==
  LET result == IF execReturned THEN GIT_OK ELSE GIT_EUSER
      git_error_last == FALSE
  IN [pc |-> "Executed", result |-> result, finalCmd |-> l.finalCmd,
      baton |-> [l.baton EXCEPT
                   !.error = IF result # GIT_OK /\ git_error_last THEN TRUE ELSE @],
      cmd |-> l.cmd, callback |-> l.callback]

\* InitializeWorker::Execute up to popen in exec: baton->error_code is set to
\* GIT_OK, the working directory is put in the environment of the command;
\* popen opens the pipe or fails, and then exec returns false
LfsExecuteOpen ==
  /\ lfs.pc = "Queued"
  /\ LET cmd == [lfs.cmd EXCEPT !.m_env = lfs.workdir]
         started == [pc |-> "Reading", finalCmd |-> FinalCmd(cmd),
                     baton |-> [lfs.baton EXCEPT !.error_code = GIT_OK],
                     cmd |-> cmd, callback |-> lfs.callback]
     IN \E pipe \in BOOLEAN :
          lfs' = IF pipe THEN started
                 ELSE ExecuteReturn([started EXCEPT !.cmd.errorMsg = "popen() failed!"], FALSE)
  /\ UNCHANGED <<analysisVars, trackerVars, hardware>>

\* one turn of the loop of exec in which fgets has read a line
LfsExecuteRead(line) ==
  /\ lfs.pc = "Reading"
  /\ Len(lfs.cmd.out) < MaxOutput
  /\ lfs' = [lfs EXCEPT !.cmd.out = Append(@, line)]
  /\ UNCHANGED <<analysisVars, trackerVars, hardware>>

\* feof: the loop ends, pclose returns rc, exec returns and so does Execute
LfsExecuteClose(rc) ==
  /\ lfs.pc = "Reading"
  /\ lfs' = IF rc # EXIT_SUCCESS
              THEN ExecuteReturn([lfs EXCEPT !.cmd.errorMsg = "pclose() failed!"], FALSE)
              ELSE ExecuteReturn(lfs, TRUE)
  /\ UNCHANGED <<analysisVars, trackerVars, hardware>>

\* the arguments InitializeWorker::HandleOKCallback calls the callback with
LfsCallbackArguments(b) ==
  IF b.error_code = GIT_OK THEN <<"null", "undefined">>
  ELSE IF b.error \/ b.error_code < 0
    THEN <<[errno |-> b.error_code, errorFunction |-> "LFS.initialize"]>>
    ELSE <<>>

\* InitializeWorker::HandleOKCallback: the callback is called and the baton,
\* with the command, is deleted
LfsHandleOKCallback ==
  /\ lfs.pc = "Executed"
  /\ lfs' = [pc |-> "Done", result |-> lfs.result, finalCmd |-> lfs.finalCmd,
             callback |-> LfsCallbackArguments(lfs.baton)]
  /\ UNCHANGED <<analysisVars, trackerVars, hardware>>

InitLfs ==
  InitAt([odb |-> EmptyRepository.odb, refs |-> EmptyRepository.refs,
          copies |-> EmptyMap, fails |-> NoFailures], "Idle")

NextLfs ==
  \/ \E local \in BOOLEAN : \E workdir \in Workdirs : LfsInitialize(local, workdir)
  \/ LfsExecuteOpen
  \/ \E line \in OutputLines : LfsExecuteRead(line)
  \/ \E rc \in ExitStatuses : LfsExecuteClose(rc)
  \/ LfsHandleOKCallback

SpecLfs == InitLfs /\ [][NextLfs]_vars

\* C36: when LFS.initialize has called the callback, the callback has got an
\* error (one argument, the error object) if exec returned false, and it has
\* got success (null and the result) only if exec returned true.
C36_InitializeReportsExec ==
  lfs.pc = "Done" =>
    /\ lfs.result # GIT_OK =>
         Len(lfs.callback) = 1 /\ lfs.callback[1].errno # GIT_OK
    /\ lfs.callback = <<"null", "undefined">> => lfs.result = GIT_OK

\* the callback gets success whenever the command could be run and exited
\* with status 0
LfsSuccessReported ==
  lfs.pc = "Done" /\ lfs.result = GIT_OK => lfs.callback = <<"null", "undefined">>

\* ------------------------------------------------------------------------
\* The size of the worker pool of a run
\* ------------------------------------------------------------------------
\* a run on an empty repository, on a machine that reports 0 (the count is
\* not computable) to MaxHardware hardware threads; no worker exists before
\* analyzeObjects builds the vector
InitThreads ==
  /\ InitTracker
  /\ lfs = LfsIdle
  /\ hardware \in 0..MaxHardware
  /\ wpc = <<>>
  /\ witem = <<>>
  /\ InitRepo([odb |-> EmptyRepository.odb, refs |-> EmptyRepository.refs,
               copies |-> EmptyMap, fails |-> NoFailures], "Idle")

NextThreads ==
  \/ AnalyzeObjectsThreads
  \/ RepositoryOdb
  \/ ForEachFails
  \/ ShutdownSignalled
  \/ ShutdownJoin
  \/ ShutdownReturn
  \/ \E w \in DOMAIN wpc : WorkerInitialize(w)
  \/ \E w \in DOMAIN wpc : GetWork(w)

SpecThreads == InitThreads /\ [][NextThreads]_vars

\* C37: once analyzeObjects has built its pool, the pool has N workers where
\* N is the larger of the reported hardware thread count and 4, so N is at
\* least 4 also when the reported count is 0; and N does not change until
\* the run ends.
C37_PoolSizeIsMaxOfHardwareAnd4 ==
  /\ [](apc # "Idle" =>
          /\ Cardinality(DOMAIN wpc) = (IF hardware > 4 THEN hardware ELSE 4)
          /\ Cardinality(DOMAIN wpc) >= 4
          /\ DOMAIN witem = DOMAIN wpc)
  /\ [][apc # "Idle" => DOMAIN wpc' = DOMAIN wpc /\ hardware' = hardware]_vars

\* the machine reports 0 hardware threads, the pool has 4 workers, all of
\* them were joined by Shutdown, and one of them ended on the signal
C37_Witness ==
  /\ hardware = 0
  /\ apc = "BiggestCheckouts"
  /\ Cardinality(DOMAIN wpc) = 4
  /\ joined = 4
  /\ \E w \in DOMAIN wpc : wpc[w] = "ExitShutdown"

====
